---- MODULE Spec2Model ----
(***************************************************************************)
(* CreditGuard AI Assistant: the risk scoring engine (RiskCalculator),     *)
(* the market-research query cache (MarketResearchPlugin) and the          *)
(* evaluation pipeline (CreditRiskAgent.evaluate_credit_risk).             *)
(*                                                                         *)
(* Numbers.  Component scores are kept in tenths, the weighted base score  *)
(* in thousandths and the final score in units of 10^-5, so the scoring    *)
(* arithmetic is exact; on every input of the model it gives the value the *)
(* program computes in double precision.  The confidence score is kept as  *)
(* the IEEE-754 double the program computes (see the F* operators).        *)
(***************************************************************************)
EXTENDS Integers, Sequences, FiniteSets, TLC

\* ------------------------------------------------------------------------
\* Encoding of Python dictionaries
\* ------------------------------------------------------------------------
\* A numeric field whose key is missing from its dict.
Absent == -1
\* A field whose key is present with the value None.
Null == -2
\* A string field whose key is missing from its dict.
AbsentStr == "<absent>"
\* A string field whose key is present with the value None.
NullStr == "<null>"

\* dict.get(key, default) for a numeric field
Get(v, default) == IF v = Absent THEN default ELSE v

\* dict.get(key, default) for a string field
GetStr(v, default) == IF v = AbsentStr THEN default ELSE v

\* str.lower() on the strings the model uses
Lower(s) ==
    CASE s = "Hospitality" -> "hospitality"
      [] s = "Retail" -> "retail"
      [] s = "Restaurant Manager" -> "restaurant manager"
      [] s = "Card Fraud surge" -> "card fraud surge"
      [] s = "Economic slowdown" -> "economic slowdown"
      [] OTHER -> s

\* str.upper() on the strings the model uses
Upper(s) ==
    CASE s = "nv" -> "NV"
      [] s = "ca" -> "CA"
      [] OTHER -> s

\* `kw in text` for the keywords and texts the model uses
SubstringOf(kw, text) ==
    \/ kw = text
    \/ <<kw, text>> \in { <<"restaurant", "restaurant manager">>,
                          <<"fraud", "card fraud surge">>,
                          <<"economic", "economic slowdown">> }

\* str.lower() of one character
LowerLetters ==
    [c \in {"A", "B", "C", "D", "E", "F", "G", "H", "I", "J", "K", "L", "M",
            "N", "O", "P", "Q", "R", "S", "T", "U", "V", "W", "X", "Y", "Z"} |->
        CASE c = "A" -> "a" [] c = "B" -> "b" [] c = "C" -> "c" [] c = "D" -> "d"
          [] c = "E" -> "e" [] c = "F" -> "f" [] c = "G" -> "g" [] c = "H" -> "h"
          [] c = "I" -> "i" [] c = "J" -> "j" [] c = "K" -> "k" [] c = "L" -> "l"
          [] c = "M" -> "m" [] c = "N" -> "n" [] c = "O" -> "o" [] c = "P" -> "p"
          [] c = "Q" -> "q" [] c = "R" -> "r" [] c = "S" -> "s" [] c = "T" -> "t"
          [] c = "U" -> "u" [] c = "V" -> "v" [] c = "W" -> "w" [] c = "X" -> "x"
          [] c = "Y" -> "y" [] c = "Z" -> "z"]

RECURSIVE LowerFrom(_, _)
LowerFrom(s, i) ==
    IF i > Len(s) THEN ""
    ELSE LET c == SubSeq(s, i, i)
         IN  (IF c \in DOMAIN LowerLetters THEN LowerLetters[c] ELSE c)
             \o LowerFrom(s, i + 1)

\* str.lower(), character by character
LowerText(s) == LowerFrom(s, 1)

\* `keyword in content`, position by position
Contains(keyword, content) ==
    \E i \in 1..(Len(content) - Len(keyword) + 1) :
        SubSeq(content, i, i + Len(keyword) - 1) = keyword

\* ------------------------------------------------------------------------
\* IEEE-754 doubles in [2^-5, 2): x is <<hi, lo>> with
\* x = (hi * 2^29 + lo) * 2^-57 and 0 <= lo < 2^29.
\* ------------------------------------------------------------------------
FWord == 536870912

FNorm(hi, lo) ==
    IF lo >= FWord THEN <<hi + 1, lo - FWord>>
    ELSE IF lo < 0 THEN <<hi - 1, lo + FWord>>
    ELSE <<hi, lo>>

\* spacing of the doubles in the binade of x, in units of 2^-57
FQuantum(hi) ==
    IF hi >= 268435456 THEN 32
    ELSE IF hi >= 134217728 THEN 16
    ELSE IF hi >= 67108864 THEN 8
    ELSE IF hi >= 33554432 THEN 4
    ELSE IF hi >= 16777216 THEN 2
    ELSE 1

\* round to nearest, ties to even
FRound(x) ==
    LET q == FQuantum(x[1])
        r == x[2] % q
        down == x[2] - r
        up == down + q
        pick == IF 2 * r < q THEN down
                ELSE IF 2 * r > q THEN up
                ELSE IF (down \div q) % 2 = 0 THEN down ELSE up
    IN  FNorm(x[1], pick)

FAdd(a, b) == FRound(FNorm(a[1] + b[1], a[2] + b[2]))
FSub(a, b) == FRound(FNorm(a[1] - b[1], a[2] - b[2]))
FLess(a, b) == a[1] < b[1] \/ (a[1] = b[1] /\ a[2] < b[2])
FLeq(a, b) == a = b \/ FLess(a, b)
FMin(a, b) == IF FLess(b, a) THEN b ELSE a
FMax(a, b) == IF FLess(a, b) THEN b ELSE a

\* the literals of _calculate_confidence_score
F0_05 == <<13421772, 429496730>>
F0_1 == <<26843545, 322122548>>
F0_2 == <<53687091, 107374184>>
F0_5 == <<134217728, 0>>
F0_7 == <<187904819, 107374176>>
F1_0 == <<268435456, 0>>

\* n * x in double precision, for an int n
FMulInt(n, x) ==
    FRound(<<n * x[1] + ((n * x[2]) \div FWord), (n * x[2]) % FWord>>)

\* the literals 0.15 and 0.9, and the double nearest to 0.45
F0_15 == <<40265318, 214748364>>
F0_9 == <<241591910, 214748368>>
F0_45 == <<120795955, 107374184>>

\* ------------------------------------------------------------------------
\* RiskCalculator: parameters
\* ------------------------------------------------------------------------
\* scoring_weights, in hundredths
scoring_weights ==
    [credit_score |-> 35, financial_stability |-> 25,
     behavioral_patterns |-> 20, demographic_factors |-> 10,
     external_factors |-> 10]

\* the bands with the base risks of 600-649 and 650-699 exchanged
credit_score_bands_exchanged ==
    << [lo |-> 800, hi |-> 850, base_risk |-> 5, multiplier |-> 5],
       [lo |-> 750, hi |-> 799, base_risk |-> 10, multiplier |-> 7],
       [lo |-> 700, hi |-> 749, base_risk |-> 20, multiplier |-> 10],
       [lo |-> 650, hi |-> 699, base_risk |-> 50, multiplier |-> 13],
       [lo |-> 600, hi |-> 649, base_risk |-> 35, multiplier |-> 16],
       [lo |-> 550, hi |-> 599, base_risk |-> 70, multiplier |-> 20],
       [lo |-> 300, hi |-> 549, base_risk |-> 85, multiplier |-> 25] >>

\* credit_score_bands in dict order; multiplier in tenths
credit_score_bands ==
    << [lo |-> 800, hi |-> 850, base_risk |-> 5, multiplier |-> 5],
       [lo |-> 750, hi |-> 799, base_risk |-> 10, multiplier |-> 7],
       [lo |-> 700, hi |-> 749, base_risk |-> 20, multiplier |-> 10],
       [lo |-> 650, hi |-> 699, base_risk |-> 35, multiplier |-> 13],
       [lo |-> 600, hi |-> 649, base_risk |-> 50, multiplier |-> 16],
       [lo |-> 550, hi |-> 599, base_risk |-> 70, multiplier |-> 20],
       [lo |-> 300, hi |-> 549, base_risk |-> 85, multiplier |-> 25] >>

\* financial_thresholds, DTI in hundredths
financial_thresholds ==
    [excellent_dti |-> 20, good_dti |-> 30, acceptable_dti |-> 40,
     high_dti |-> 50]

\* behavioral_indicators, utilization in hundredths
behavioral_indicators ==
    [multiple_inquiries_threshold |-> 5, new_accounts_threshold |-> 3,
     utilization_high_threshold |-> 80]

\* market_factors['industry_risk_multipliers'], in tenths; 0 = not a key
industry_risk_multipliers(occ) ==
    CASE occ = "hospitality" -> 14
      [] occ = "retail" -> 12
      [] occ = "technology" -> 9
      [] occ = "healthcare" -> 8
      [] occ = "government" -> 7
      [] occ = "education" -> 8
      [] OTHER -> 0

RiskFactor(name, type, sev, rec) ==
    [factor_name |-> name, factor_type |-> type, severity |-> sev,
     recommendation |-> rec]

Clamp(lo, hi, x) == IF x < lo THEN lo ELSE IF x > hi THEN hi ELSE x

\* ------------------------------------------------------------------------
\* Inputs.  bureau_data is a record with kind "none" (None), "empty" ({})
\* or "dict" (a non-empty dict); market_context is <<>> for None or [] and
\* a sequence of insights otherwise.
\* ------------------------------------------------------------------------
BureauTruthy(bd) == bd.kind = "dict"

\* ------------------------------------------------------------------------
\* _calculate_credit_score_component
\* ------------------------------------------------------------------------
\* the credit score the engine uses (risk_calculator.py 258-262)
EngineCreditScore(cd, bd) ==
    IF BureauTruthy(bd) /\ bd.credit_score # Absent THEN bd.credit_score
    ELSE IF cd.hasProfile THEN Get(cd.creditScore, 0)
    ELSE 0

\* first band, in dict order, that contains the score; 0 = none
RECURSIVE FindBand(_, _)
FindBand(score, i) ==
    IF i > Len(credit_score_bands) THEN 0
    ELSE IF credit_score_bands[i].lo <= score /\ score <= credit_score_bands[i].hi
         THEN i
         ELSE FindBand(score, i + 1)

\* a credit score below 550 rated CRITICAL
CreditSeverityWithCritical(score) ==
    IF score < 550 THEN "CRITICAL"
    ELSE IF score < 650 THEN "HIGH" ELSE IF score < 700 THEN "MEDIUM" ELSE "LOW"

CreditSeverity(score) ==
    IF score < 650 THEN "HIGH" ELSE IF score < 700 THEN "MEDIUM" ELSE "LOW"

CreditRecommendation(score) ==
    IF score < 650 THEN "Consider secured credit products or co-signer requirements"
    ELSE IF score < 700 THEN "Standard underwriting with close monitoring"
    ELSE "Eligible for premium credit products"

\* score in tenths, and the factors
calculate_credit_score_component(cd, bd) ==
    LET credit_score == EngineCreditScore(cd, bd)
        band == FindBand(credit_score, 1)
        base0 == IF band = 0 THEN 50 ELSE credit_score_bands[band].base_risk
        multiplier == IF band = 0 THEN 10 ELSE credit_score_bands[band].multiplier
        f1 == << RiskFactor("credit_score", "FINANCIAL",
                            CreditSeverity(credit_score),
                            CreditRecommendation(credit_score)) >>
        payment_history == IF BureauTruthy(bd)
                           THEN GetStr(bd.payment_history, "UNKNOWN")
                           ELSE "UNKNOWN"
        hasPay == BureauTruthy(bd) /\ payment_history \in {"POOR", "FAIR"}
        f2 == IF hasPay
              THEN << RiskFactor("payment_history", "BEHAVIORAL",
                                 IF payment_history = "POOR" THEN "HIGH" ELSE "MEDIUM",
                                 "Require additional verification or monitoring") >>
              ELSE << >>
        base1 == base0 + (IF hasPay
                          THEN (IF payment_history = "POOR" THEN 10 ELSE 5)
                          ELSE 0)
        utilization == IF BureauTruthy(bd) THEN Get(bd.credit_utilization, 0) ELSE 0
        hasUtil == BureauTruthy(bd)
                   /\ utilization > behavioral_indicators.utilization_high_threshold
        f3 == IF hasUtil
              THEN << RiskFactor("high_credit_utilization", "BEHAVIORAL", "HIGH",
                                 "Monitor spending patterns closely") >>
              ELSE << >>
        base2 == base1 + (IF hasUtil THEN 8 ELSE 0)
    IN  [score |-> base2 * multiplier, factors |-> f1 \o f2 \o f3]

\* ------------------------------------------------------------------------
\* _calculate_financial_component
\* ------------------------------------------------------------------------
\* the division without its guard
DtiDividesUnguarded(cd) == TRUE

\* existing_debt / monthly_income is evaluated only `if monthly_income > 0`
DtiDivides(cd) == Get(cd.annualIncome, 0) > 0

\* the exception the financial component ends in, "" if none:
\* `annual_income > 0` on None, a division by a zero monthly_income,
\* `occupation.lower()` on None
FinancialError(cd) ==
    IF cd.annualIncome = Null THEN "TypeError"
    ELSE IF DtiDivides(cd) /\ Get(cd.annualIncome, 0) = 0 THEN "ZeroDivisionError"
    ELSE IF cd.occupation = NullStr THEN "AttributeError"
    ELSE ""

\* dti_ratio > t/100, where dti_ratio is 1.0 when there is no monthly income
DtiAbove(cd, t) ==
    LET annual_income == Get(cd.annualIncome, 0)
        existing_debt == IF cd.hasProfile THEN Get(cd.monthlyDebtPayments, 0) ELSE 0
    IN  IF DtiDivides(cd)
        THEN 100 * 12 * existing_debt > t * annual_income
        ELSE 100 > t

\* score in tenths, and the factors
calculate_financial_component(cd, ad) ==
    LET annual_income == Get(cd.annualIncome, 0)
        employment_years == Get(cd.employmentYears, 0)
        occupation == GetStr(cd.occupation, "unknown")
        dtiF == IF DtiAbove(cd, financial_thresholds.high_dti)
                THEN [d |-> 20, f |-> RiskFactor("debt_to_income_ratio", "FINANCIAL", "HIGH",
                                    "Require debt consolidation or co-signer")]
                ELSE IF DtiAbove(cd, financial_thresholds.acceptable_dti)
                THEN [d |-> 10, f |-> RiskFactor("debt_to_income_ratio", "FINANCIAL", "MEDIUM",
                                    "Lower credit limits and close monitoring")]
                ELSE IF DtiAbove(cd, financial_thresholds.good_dti)
                THEN [d |-> -5, f |-> RiskFactor("debt_to_income_ratio", "FINANCIAL", "LOW",
                                    "Standard underwriting acceptable")]
                ELSE [d |-> -15, f |-> RiskFactor("debt_to_income_ratio", "FINANCIAL", "LOW",
                                    "Qualified for premium products")]
        incF == IF annual_income < 25000
                THEN [d |-> 15, f |-> << RiskFactor("low_income", "FINANCIAL", "HIGH",
                                    "Consider secured products or lower limits") >>]
                ELSE IF annual_income < 40000
                THEN [d |-> 5, f |-> << RiskFactor("moderate_income", "FINANCIAL", "MEDIUM",
                                    "Standard underwriting with income verification") >>]
                ELSE [d |-> 0, f |-> << >>]
        \* employment_years is in tenths of a year
        empF == IF employment_years < 10
                THEN [d |-> 10, f |-> << RiskFactor("short_employment", "FINANCIAL", "HIGH",
                                    "Require additional income verification") >>]
                ELSE IF employment_years < 20
                THEN [d |-> 5, f |-> << RiskFactor("recent_employment", "FINANCIAL", "MEDIUM",
                                    "Monitor for income stability") >>]
                ELSE [d |-> 0, f |-> << >>]
        multiplier == industry_risk_multipliers(Lower(occupation))
        risky == multiplier > 10
        occF == IF risky
                THEN << RiskFactor("high_risk_occupation", "DEMOGRAPHIC", "MEDIUM",
                                   "Consider industry-specific risk factors") >>
                ELSE << >>
        base_score == 30 + dtiF.d + incF.d + empF.d
        scaled == IF risky THEN base_score * multiplier ELSE base_score * 10
    IN  [score |-> Clamp(0, 1000, scaled),
         factors |-> << dtiF.f >> \o incF.f \o empF.f \o occF]

\* ------------------------------------------------------------------------
\* _calculate_behavioral_component
\* ------------------------------------------------------------------------
HoursPerDay == 24

\* _is_recent_inquiry / _is_recent_account: an empty date is not recent; an
\* unparsable date, and a timezone-aware date (whose comparison with the
\* naive cutoff raises TypeError), end in the bare except and are not recent
is_recent(date, months, clock) ==
    /\ date.kind = "naive"
    /\ date.t >= clock - months * 30 * HoursPerDay

is_recent_inquiry(date, clock) == is_recent(date, 6, clock)
is_recent_account(date, clock) == is_recent(date, 12, clock)

Count(s, P(_)) == Cardinality({i \in 1..Len(s) : P(s[i])})

recent_hard_inquiries(bd, clock) ==
    LET Hit(inq) == inq.inquiry_type = "HARD" /\ is_recent_inquiry(inq.inquiry_date, clock)
    IN  Count(bd.inquiries, Hit)

recent_accounts(bd, clock) ==
    LET Hit(acc) == is_recent_account(acc.opened_date, clock)
    IN  Count(bd.accounts, Hit)

delinquent_accounts(bd) ==
    LET Hit(acc) == Get(acc.delinquencies, 0) > 0
    IN  Count(bd.accounts, Hit)

\* CRITICAL only above a delinquency rate of one half
DelinquencySeverityAboveHalf(d, n) ==
    IF 10 * d > 5 * n THEN "CRITICAL"
    ELSE IF 100 * d > 15 * n THEN "HIGH"
    ELSE "MEDIUM"

\* severity of the payment_delinquencies factor for d delinquent of n accounts
DelinquencySeverity(d, n) ==
    IF 10 * d > 3 * n THEN "CRITICAL"
    ELSE IF 100 * d > 15 * n THEN "HIGH"
    ELSE "MEDIUM"

\* score in tenths, and the factors
calculate_behavioral_component(cd, bd, clock) ==
    IF ~BureauTruthy(bd) THEN [score |-> 250, factors |-> << >>]
    ELSE
    LET inq == recent_hard_inquiries(bd, clock)
        inqF == IF inq > behavioral_indicators.multiple_inquiries_threshold
                THEN [d |-> 20, f |-> << RiskFactor("excessive_credit_inquiries", "BEHAVIORAL",
                                    "HIGH", "Investigate credit-seeking behavior") >>]
                ELSE IF inq > 2
                THEN [d |-> 10, f |-> << RiskFactor("multiple_credit_inquiries", "BEHAVIORAL",
                                    "MEDIUM", "Monitor credit application patterns") >>]
                ELSE [d |-> 0, f |-> << >>]
        accF == IF recent_accounts(bd, clock) > behavioral_indicators.new_accounts_threshold
                THEN [d |-> 15, f |-> << RiskFactor("rapid_account_opening", "BEHAVIORAL",
                                    "HIGH", "Investigate potential credit abuse") >>]
                ELSE [d |-> 0, f |-> << >>]
        del == delinquent_accounts(bd)
        sev == DelinquencySeverity(del, Len(bd.accounts))
        delF == IF del > 0
                THEN [d |-> IF sev = "CRITICAL" THEN 25 ELSE IF sev = "HIGH" THEN 15 ELSE 8,
                      f |-> << RiskFactor("payment_delinquencies", "BEHAVIORAL", sev,
                                    "Implement enhanced payment monitoring") >>]
                ELSE [d |-> 0, f |-> << >>]
        utilization == Get(bd.credit_utilization, 0)
        utilF == IF utilization > behavioral_indicators.utilization_high_threshold
                 THEN [d |-> 12, f |-> << RiskFactor("high_utilization_pattern", "BEHAVIORAL",
                                    "HIGH", "Monitor spending patterns and consider lower limits") >>]
                 ELSE IF utilization > 50
                 THEN [d |-> 6, f |-> << RiskFactor("elevated_utilization", "BEHAVIORAL",
                                    "MEDIUM", "Encourage utilization management") >>]
                 ELSE [d |-> 0, f |-> << >>]
        base_score == 25 + inqF.d + accF.d + delF.d + utilF.d
    IN  [score |-> 10 * Clamp(0, 100, base_score),
         factors |-> inqF.f \o accF.f \o delF.f \o utilF.f]

\* ------------------------------------------------------------------------
\* _calculate_demographic_component
\* ------------------------------------------------------------------------
high_risk_states == {"NV", "FL", "AZ"}

\* score in tenths, and the factors
calculate_demographic_component(cd) ==
    LET age == Get(cd.age, 30)
        ageF == IF age < 21
                THEN [d |-> 10, f |-> << RiskFactor("young_age", "DEMOGRAPHIC", "MEDIUM",
                                    "Consider secured products or parental co-signer") >>]
                ELSE IF age < 25
                THEN [d |-> 5, f |-> << RiskFactor("early_career_age", "DEMOGRAPHIC", "LOW",
                                    "Standard underwriting with income verification") >>]
                ELSE IF age > 70
                THEN [d |-> 3, f |-> << RiskFactor("senior_age", "DEMOGRAPHIC", "LOW",
                                    "Verify income stability and retirement planning") >>]
                ELSE [d |-> 0, f |-> << >>]
        state == Upper(GetStr(cd.state, ""))
        geoF == IF state \in high_risk_states
                THEN [d |-> 8, f |-> << RiskFactor("high_risk_geography", "DEMOGRAPHIC", "MEDIUM",
                                    "Apply regional risk adjustments") >>]
                ELSE [d |-> 0, f |-> << >>]
    IN  [score |-> 10 * Clamp(0, 100, 20 + ageF.d + geoF.d),
         factors |-> ageF.f \o geoF.f]

\* ------------------------------------------------------------------------
\* _calculate_external_component
\* ------------------------------------------------------------------------
\* 1 = fraud branch, 2 = economic branch, 0 = neither, for one insight
InsightBranch(insight) ==
    IF insight.severity \in {"HIGH", "CRITICAL"}
    THEN IF SubstringOf("fraud", Lower(GetStr(insight.summary, ""))) THEN 1
         ELSE IF SubstringOf("economic", Lower(GetStr(insight.summary, ""))) THEN 2
         ELSE 0
    ELSE 0

\* the loop over market_context[:5]
RECURSIVE InsightLoop(_, _)
InsightLoop(mc, i) ==
    IF i > Len(mc) \/ i > 5 THEN [d |-> 0, f |-> << >>]
    ELSE LET rest == InsightLoop(mc, i + 1)
             b == InsightBranch(mc[i])
         IN  IF b = 1
             THEN [d |-> 15 + rest.d,
                   f |-> << RiskFactor("market_fraud_trend", "EXTERNAL", "HIGH",
                              "Implement enhanced fraud monitoring") >> \o rest.f]
             ELSE IF b = 2
             THEN [d |-> 10 + rest.d,
                   f |-> << RiskFactor("economic_headwinds", "EXTERNAL", "MEDIUM",
                              "Apply conservative underwriting") >> \o rest.f]
             ELSE rest

\* score in tenths, and the factors
calculate_external_component(cd, mc) ==
    IF mc = << >> THEN [score |-> 150, factors |-> << >>]
    ELSE
    LET loop == InsightLoop(mc, 1)
        occupation == Lower(GetStr(cd.occupation, ""))
        volatile == \E kw \in {"hospitality", "restaurant", "tourism"} :
                        SubstringOf(kw, occupation)
        indF == IF volatile
                THEN [d |-> 12, f |-> << RiskFactor("volatile_industry", "EXTERNAL", "MEDIUM",
                                    "Monitor employment stability closely") >>]
                ELSE [d |-> 0, f |-> << >>]
    IN  [score |-> 10 * Clamp(0, 100, 15 + loop.d + indF.d),
         factors |-> loop.f \o indF.f]

\* ------------------------------------------------------------------------
\* _apply_risk_adjustments, _determine_risk_level
\* ------------------------------------------------------------------------
\* 100.0 in the unit of the final score (10^-5)
ScoreCap == 10000000

is_first_time_customer(cd) ==
    LET credit_score == IF cd.hasProfile THEN Get(cd.creditScore, 0) ELSE 0
    IN  credit_score < 600 \/ credit_score = 0

SeverityCount(factors, sev) ==
    Cardinality({i \in 1..Len(factors) : factors[i].severity = sev})

\* the adjustments with each one taken as a percentage of the score as
\* adjusted so far
risk_adjustments_compounding(base_score, factors, cd, ad) ==
    LET s0 == base_score * 100
        a1 == IF is_first_time_customer(cd)
              THEN << [name |-> "first_time_customer", amount |-> s0 \div 10] >>
              ELSE << >>
        s1 == s0 + (IF a1 = << >> THEN 0 ELSE a1[1].amount)
        requested_limit == Get(ad.requested_limit, 0)
        annual_income == Get(cd.annualIncome, 0)
        a2 == IF annual_income > 0 /\ 2 * requested_limit > annual_income
              THEN << [name |-> "high_limit_request", amount |-> (s1 * 15) \div 100] >>
              ELSE << >>
        s2 == s1 + (IF a2 = << >> THEN 0 ELSE a2[1].amount)
        high_severity_count == SeverityCount(factors, "HIGH")
        critical_severity_count == SeverityCount(factors, "CRITICAL")
        a3 == IF critical_severity_count > 0
              THEN << [name |-> "critical_risk_factors",
                       amount |-> ((s2 \div 100) * 25) * critical_severity_count] >>
              ELSE IF high_severity_count > 2
              THEN << [name |-> "multiple_high_risks",
                       amount |-> ((s2 \div 100) * 12) * (high_severity_count - 2)] >>
              ELSE << >>
    IN  [final_score |-> s2 + (IF a3 = << >> THEN 0 ELSE a3[1].amount),
         adjustments |-> a1 \o a2 \o a3]

\* base_score is in thousandths; every adjustment is base_score times a
\* percentage, so in units of 10^-5.  Returns final_score before the cap
\* and the list of adjustments.
risk_adjustments(base_score, factors, cd, ad) ==
    LET a1 == IF is_first_time_customer(cd)
              THEN << [name |-> "first_time_customer", amount |-> base_score * 10] >>
              ELSE << >>
        requested_limit == Get(ad.requested_limit, 0)
        annual_income == Get(cd.annualIncome, 0)
        a2 == IF annual_income > 0 /\ 2 * requested_limit > annual_income
              THEN << [name |-> "high_limit_request", amount |-> base_score * 15] >>
              ELSE << >>
        high_severity_count == SeverityCount(factors, "HIGH")
        critical_severity_count == SeverityCount(factors, "CRITICAL")
        a3 == IF critical_severity_count > 0
              THEN << [name |-> "critical_risk_factors",
                       amount |-> base_score * 25 * critical_severity_count] >>
              ELSE IF high_severity_count > 2
              THEN << [name |-> "multiple_high_risks",
                       amount |-> base_score * 12 * (high_severity_count - 2)] >>
              ELSE << >>
        adjustments == a1 \o a2 \o a3
        total == base_score * 100
                 + (IF a1 = << >> THEN 0 ELSE a1[1].amount)
                 + (IF a2 = << >> THEN 0 ELSE a2[1].amount)
                 + (IF a3 = << >> THEN 0 ELSE a3[1].amount)
    IN  [final_score |-> total, adjustments |-> adjustments]

\* the adjustments without the final min(100, max(0, final_score))
apply_risk_adjustments_uncapped(base_score, factors, cd, ad) ==
    risk_adjustments(base_score, factors, cd, ad)

apply_risk_adjustments(base_score, factors, cd, ad) ==
    LET r == risk_adjustments(base_score, factors, cd, ad)
    IN  [r EXCEPT !.final_score = Clamp(0, ScoreCap, r.final_score)]

\* the thresholds compared with > in place of >=
determine_risk_level_strict(risk_score) ==
    IF risk_score > 7500000 THEN "CRITICAL"
    ELSE IF risk_score > 5000000 THEN "HIGH"
    ELSE IF risk_score > 2500000 THEN "MEDIUM"
    ELSE "LOW"

\* risk_score in units of 10^-5
determine_risk_level(risk_score) ==
    IF risk_score >= 7500000 THEN "CRITICAL"
    ELSE IF risk_score >= 5000000 THEN "HIGH"
    ELSE IF risk_score >= 2500000 THEN "MEDIUM"
    ELSE "LOW"

\* ------------------------------------------------------------------------
\* _calculate_confidence_score, in double precision
\* ------------------------------------------------------------------------
\* 0.05 * critical_count for the counts that occur (1, 2): both products
\* are exact in binary floating point
FCriticalBonus(k) == IF k = 1 THEN F0_05 ELSE FAdd(F0_05, F0_05)

\* a bureau boost of 0.1 in place of 0.2
BureauBoostTenth == F0_1

\* confidence += 0.2 when bureau data is present
BureauBoost == F0_2

calculate_confidence_score(cd, bd, factors) ==
    LET c0 == F0_5
        c1 == IF Get(cd.annualIncome, 0) > 0 THEN FAdd(c0, F0_1) ELSE c0
        c2 == IF Get(cd.employmentYears, 0) > 0 THEN FAdd(c1, F0_1) ELSE c1
        c3 == IF BureauTruthy(bd) THEN FAdd(c2, BureauBoost) ELSE c2
        c4 == IF BureauTruthy(bd) /\ Len(bd.accounts) > 0 THEN FAdd(c3, F0_1) ELSE c3
        c5 == IF BureauTruthy(bd) /\ Get(bd.credit_score, 0) > 0 THEN FAdd(c4, F0_1) ELSE c4
        c6 == IF cd.occupation \in {AbsentStr, NullStr, ""} THEN FSub(c5, F0_05) ELSE c5
        critical_count == SeverityCount(factors, "CRITICAL")
        c7 == IF critical_count > 0 THEN FAdd(c6, FCriticalBonus(critical_count)) ELSE c6
    IN  FMin(F1_0, FMax(F0_1, c7))

\* ------------------------------------------------------------------------
\* _generate_risk_recommendations
\* ------------------------------------------------------------------------
TierRecommendations(risk_level) ==
    CASE risk_level = "CRITICAL" ->
           << "Strongly recommend denial of credit application",
              "If approved, implement maximum monitoring and lowest possible limits",
              "Require co-signer or secured collateral",
              "Manual review required for any credit decisions" >>
      [] risk_level = "HIGH" ->
           << "Consider denial or approve with strict conditions",
              "Implement enhanced monitoring and fraud detection",
              "Lower credit limits significantly below requested amount",
              "Require additional income verification" >>
      [] risk_level = "MEDIUM" ->
           << "Approve with standard to conservative terms",
              "Implement regular account monitoring",
              "Consider graduated credit limit increases based on performance" >>
      [] OTHER ->
           << "Eligible for standard or premium credit products",
              "Consider competitive rates and higher credit limits",
              "Good candidate for relationship banking products" >>

\* every recommendation string a factor can carry, in the order in which
\* calculate_comprehensive_risk emits the factors
FactorRecommendations ==
    << "Consider secured credit products or co-signer requirements",
       "Standard underwriting with close monitoring",
       "Eligible for premium credit products",
       "Require additional verification or monitoring",
       "Monitor spending patterns closely",
       "Require debt consolidation or co-signer",
       "Lower credit limits and close monitoring",
       "Standard underwriting acceptable",
       "Qualified for premium products",
       "Consider secured products or lower limits",
       "Standard underwriting with income verification",
       "Require additional income verification",
       "Monitor for income stability",
       "Consider industry-specific risk factors",
       "Investigate credit-seeking behavior",
       "Monitor credit application patterns",
       "Investigate potential credit abuse",
       "Implement enhanced payment monitoring",
       "Monitor spending patterns and consider lower limits",
       "Encourage utilization management",
       "Consider secured products or parental co-signer",
       "Verify income stability and retirement planning",
       "Apply regional risk adjustments",
       "Implement enhanced fraud monitoring",
       "Apply conservative underwriting",
       "Monitor employment stability closely" >>

\* Iteration orders of a set of strings.  The order of list(set(...)) is
\* fixed by the string hashes, which are salted once per interpreter
\* process: an order is a permutation of the strings, the same for every
\* call of one process.
HashOrders == {"first_seen", "odd_first"}

OrderedStrings(order) ==
    CASE order = "first_seen" -> FactorRecommendations
      [] OTHER ->
           LET n == Len(FactorRecommendations)
           IN  [i \in 1..n |->
                  IF i <= (n + 1) \div 2
                  THEN FactorRecommendations[2 * i - 1]
                  ELSE FactorRecommendations[2 * (i - (n + 1) \div 2)]]

\* list(set) for a set of recommendation strings
SetToList(S, order) ==
    LET In(x) == x \in S
    IN  SelectSeq(OrderedStrings(order), In)

Prefix(s, n) == IF Len(s) <= n THEN s ELSE SubSeq(s, 1, n)

generate_risk_recommendations(factors, risk_level, order) ==
    LET factor_recommendations ==
            {factors[i].recommendation : i \in 1..Len(factors)} \ {""}
    IN  TierRecommendations(risk_level)
        \o Prefix(SetToList(factor_recommendations, order), 5)

\* ------------------------------------------------------------------------
\* calculate_comprehensive_risk
\* ------------------------------------------------------------------------
\* clock is datetime.now() at the call, order the process's set order
calculate_comprehensive_risk(cd, ad, bd, mc, clock, order) ==
    IF FinancialError(cd) # ""
    THEN [status |-> "raised", error |-> FinancialError(cd)]
    ELSE
    LET credit == calculate_credit_score_component(cd, bd)
        financial == calculate_financial_component(cd, ad)
        behavioral == calculate_behavioral_component(cd, bd, clock)
        demographic == calculate_demographic_component(cd)
        external == calculate_external_component(cd, mc)
        risk_factors == credit.factors \o financial.factors \o behavioral.factors
                        \o demographic.factors \o external.factors
        base_score == credit.score * scoring_weights.credit_score
                      + financial.score * scoring_weights.financial_stability
                      + behavioral.score * scoring_weights.behavioral_patterns
                      + demographic.score * scoring_weights.demographic_factors
                      + external.score * scoring_weights.external_factors
        adjusted == apply_risk_adjustments(base_score, risk_factors, cd, ad)
        risk_level == determine_risk_level(adjusted.final_score)
    IN  [status |-> "returned",
         overall_risk_score |-> adjusted.final_score,
         risk_level |-> risk_level,
         confidence_score |-> calculate_confidence_score(cd, bd, risk_factors),
         risk_factors |-> risk_factors,
         score_breakdown |->
             [base_score |-> base_score,
              credit_score_component |-> credit.score,
              financial_component |-> financial.score,
              behavioral_component |-> behavioral.score,
              demographic_component |-> demographic.score,
              external_component |-> external.score,
              adjustments |-> adjusted.adjustments,
              final_score |-> adjusted.final_score],
         recommendations |->
             generate_risk_recommendations(risk_factors, risk_level, order)]

\* ------------------------------------------------------------------------
\* Inputs of the scoring engine
\* ------------------------------------------------------------------------
\* datetime.now() when the process starts, in hours
StartClock == 9000

\* 6 * 30 days and 12 * 30 days before StartClock
InquiryCutoff == StartClock - 6 * 30 * HoursPerDay
AccountCutoff == StartClock - 12 * 30 * HoursPerDay

NaiveDate(t) == [kind |-> "naive", t |-> t]
AwareDate(t) == [kind |-> "aware", t |-> t]
EmptyDate == [kind |-> "empty", t |-> 0]
InvalidDate == [kind |-> "invalid", t |-> 0]

Inquiry(type, date) == [inquiry_type |-> type, inquiry_date |-> date]
Account(date, delinquencies) == [opened_date |-> date, delinquencies |-> delinquencies]

Prime ==
    [annualIncome |-> 90000, employmentYears |-> 60, occupation |-> "engineer",
     age |-> 40, state |-> "CA", hasProfile |-> TRUE, creditScore |-> 780,
     monthlyDebtPayments |-> 1650]

Subprime ==
    [annualIncome |-> 22000, employmentYears |-> 5, occupation |-> "Hospitality",
     age |-> 20, state |-> "nv", hasProfile |-> TRUE, creditScore |-> 590,
     monthlyDebtPayments |-> 1009]

\* customers whose score is exactly 25.0, 50.0 and (with PoorBureau) 75.0
Boundary25 ==
    [annualIncome |-> 22000, employmentYears |-> 60, occupation |-> "engineer",
     age |-> 20, state |-> "CA", hasProfile |-> TRUE, creditScore |-> 720,
     monthlyDebtPayments |-> 0]

Boundary50 ==
    [annualIncome |-> 22000, employmentYears |-> 60, occupation |-> "Hospitality",
     age |-> 22, state |-> "nv", hasProfile |-> TRUE, creditScore |-> 0,
     monthlyDebtPayments |-> 0]

Boundary75 ==
    [annualIncome |-> 30000, employmentYears |-> 60, occupation |-> "Hospitality",
     age |-> 75, state |-> "nv", hasProfile |-> TRUE, creditScore |-> 0,
     monthlyDebtPayments |-> 0]

\* a customer document with no optional field at all
EmptyCustomer ==
    [annualIncome |-> Absent, employmentYears |-> Absent, occupation |-> AbsentStr,
     age |-> Absent, state |-> AbsentStr, hasProfile |-> FALSE,
     creditScore |-> Absent, monthlyDebtPayments |-> Absent]

\* a customer document whose annual income is negative
NegativeIncome == [Prime EXCEPT !.annualIncome = -5000]

Incomes == {Absent, Null, 0, 22000, 30000, 90000}
EmploymentYears == {Absent, 5, 15, 60}
Occupations == {AbsentStr, NullStr, "", "Hospitality", "Retail", "Restaurant Manager", "engineer"}
Ages == {Absent, 20, 22, 75}
States == {AbsentStr, "nv", "CA"}
Debts == {Absent, 0, 3000}
CreditScores ==
    {Absent, 0, 299, 300, 549, 550, 599, 600, 649, 650, 699, 700, 749, 750,
     799, 800, 850, 851}

CustomerData ==
    {[Prime EXCEPT !.annualIncome = i, !.occupation = o] :
        i \in Incomes, o \in Occupations}
    \cup {[Subprime EXCEPT !.employmentYears = e, !.occupation = o] :
        e \in EmploymentYears, o \in Occupations}
    \cup {[b EXCEPT !.creditScore = s] : b \in {Prime, Subprime}, s \in CreditScores}
    \cup {[Prime EXCEPT !.hasProfile = FALSE, !.creditScore = Absent,
                        !.monthlyDebtPayments = Absent]}
    \cup {Boundary25, Boundary50, Boundary75, EmptyCustomer}
    \cup {[b EXCEPT !.age = a, !.state = st, !.monthlyDebtPayments = d] :
        b \in {Prime, Subprime}, a \in Ages, st \in States, d \in Debts}

ApplicationData == {[requested_limit |-> l] : l \in {Absent, 50000}}

NoBureau ==
    [kind |-> "none", credit_score |-> Absent, payment_history |-> AbsentStr,
     credit_utilization |-> Absent, accounts |-> << >>, inquiries |-> << >>]

\* {}
EmptyBureau == [NoBureau EXCEPT !.kind = "empty"]

\* a report that carries only the customer identifier
BareBureau == [NoBureau EXCEPT !.kind = "dict"]

GoodBureau ==
    [kind |-> "dict", credit_score |-> 780, payment_history |-> "GOOD",
     credit_utilization |-> 20,
     accounts |-> << Account(NaiveDate(0), 0), Account(NaiveDate(100), Absent),
                     Account(EmptyDate, 0) >>,
     inquiries |-> << Inquiry("HARD", NaiveDate(StartClock - 10)),
                      Inquiry("SOFT", NaiveDate(StartClock - 10)) >>]

\* no bureau score, 6 recent hard inquiries, 2 of 4 accounts delinquent
DelinquentBureau ==
    [kind |-> "dict", credit_score |-> Absent, payment_history |-> AbsentStr,
     credit_utilization |-> Absent,
     accounts |-> << Account(NaiveDate(0), 2), Account(NaiveDate(0), 0),
                     Account(NaiveDate(0), 1), Account(NaiveDate(0), 0) >>,
     inquiries |-> [i \in 1..6 |-> Inquiry("HARD", NaiveDate(StartClock - 24 * i))]]

\* three hard inquiries made exactly 180 days before StartClock, four
\* accounts opened exactly 360 days before it, one of them delinquent
EdgeBureau ==
    [kind |-> "dict", credit_score |-> 580, payment_history |-> "POOR",
     credit_utilization |-> 85,
     accounts |-> << Account(NaiveDate(AccountCutoff), 1),
                     Account(NaiveDate(AccountCutoff), 0),
                     Account(NaiveDate(AccountCutoff + 1), 0),
                     Account(NaiveDate(StartClock), 0) >>,
     inquiries |-> << Inquiry("HARD", NaiveDate(InquiryCutoff)),
                      Inquiry("HARD", NaiveDate(InquiryCutoff)),
                      Inquiry("HARD", NaiveDate(StartClock)),
                      Inquiry("HARD", AwareDate(StartClock)),
                      Inquiry("HARD", InvalidDate),
                      Inquiry(AbsentStr, NaiveDate(StartClock)) >>]

\* a bureau score of 0, one of seven accounts delinquent
ZeroScoreBureau ==
    [kind |-> "dict", credit_score |-> 0, payment_history |-> "FAIR",
     credit_utilization |-> 60,
     accounts |-> [i \in 1..7 |-> Account(NaiveDate(0), IF i = 3 THEN 1 ELSE 0)],
     inquiries |-> << >>]

\* no bureau score, poor payment history, one of two accounts delinquent
PoorBureau ==
    [kind |-> "dict", credit_score |-> Absent, payment_history |-> "POOR",
     credit_utilization |-> 85,
     accounts |-> << Account(EmptyDate, 1), Account(EmptyDate, Absent) >>,
     inquiries |-> << >>]

BureauData ==
    {NoBureau, EmptyBureau, BareBureau, GoodBureau, DelinquentBureau,
     EdgeBureau, ZeroScoreBureau, PoorBureau}

Insight(sev, summary) == [severity |-> sev, summary |-> summary]

MixedMarket ==
    << Insight("HIGH", "Card Fraud surge"), Insight("CRITICAL", "Economic slowdown"),
       Insight("LOW", "Card Fraud surge"), Insight("HIGH", AbsentStr),
       Insight("HIGH", "Emerging trend requiring monitoring and assessment") >>

FraudMarket == [i \in 1..6 |-> Insight("HIGH", "Card Fraud surge")]

EconomicMarket == << Insight("HIGH", "Economic slowdown") >>

\* << >> stands for None and for []
MarketContexts == {<< >>, MixedMarket, FraudMarket, EconomicMarket}

\* ------------------------------------------------------------------------
\* State
\* ------------------------------------------------------------------------
VARIABLES
    now,             \* datetime.now(), in hours
    hashOrder,       \* the set iteration order of this interpreter process
    request,         \* arguments and time of the last calculate_comprehensive_risk call
    assessment,      \* what that call returned (or that it raised)
    prevAssessment,  \* what the call before it returned, if it had the same arguments
    cache,           \* MarketResearchPlugin._cache: key -> entry
    searches,        \* the search_fraud_trends calls, in the order they were made
    writeLog,        \* every cache write so far, in order
    queries,         \* the (query, time filter) pairs the callers search for
    evaluation,      \* the evaluate_credit_risk call
    articles,        \* the articles handed to _identify_fraud_trends
    trends,          \* the trends it returned
    risk_indicators, \* the indicators handed to _generate_recommendations
    recommendations, \* the recommendations it returned
    embedder,        \* the EmbeddingsService and its get_embedding calls
    context          \* the get_context_for_query call

scoreVars == <<request, assessment, prevAssessment>>
searchVars == <<cache, searches, writeLog, queries>>
trendVars == <<articles, trends, risk_indicators, recommendations>>
embedVars == <<embedder, context>>
vars == <<now, hashOrder, request, assessment, prevAssessment,
          cache, searches, writeLog, queries, evaluation, articles, trends,
          risk_indicators, recommendations, embedder, context>>

NoCall == [status |-> "none"]

\* self._cache = {}
EmptyCache == [k \in {} |-> 0]

\* evaluate_credit_risk has not been called
NoEvaluation == [pc |-> "idle"]

\* the most hours the clock advances
MaxTicks == 1

ScoreInit ==
    /\ now = StartClock
    /\ hashOrder \in HashOrders
    /\ request = NoCall
    /\ assessment = NoCall
    /\ prevAssessment = NoCall
    /\ cache = EmptyCache /\ searches = << >> /\ writeLog = << >>
    /\ queries = {}
    /\ evaluation = NoEvaluation
    /\ articles = << >> /\ trends = NoCall
    /\ risk_indicators = << >> /\ recommendations = NoCall
    /\ embedder = NoCall /\ context = NoCall

\* first call of calculate_comprehensive_risk
Calculate ==
    /\ request = NoCall
    /\ \E cd \in CustomerData, ad \in ApplicationData,
          bd \in BureauData, mc \in MarketContexts :
          /\ request' = [status |-> "called", cd |-> cd, ad |-> ad, bd |-> bd,
                          mc |-> mc, clock |-> now]
          /\ assessment' = calculate_comprehensive_risk(cd, ad, bd, mc, now, hashOrder)
    /\ prevAssessment' = NoCall
    /\ UNCHANGED <<now, hashOrder, searchVars, evaluation, trendVars, embedVars>>

\* a further call with the same arguments
Recalculate ==
    /\ request # NoCall
    /\ prevAssessment' = assessment
    /\ assessment' = calculate_comprehensive_risk(request.cd, request.ad, request.bd,
                                                   request.mc, now, hashOrder)
    /\ request' = [request EXCEPT !.clock = now]
    /\ UNCHANGED <<now, hashOrder, searchVars, evaluation, trendVars, embedVars>>

\* time passes
ScoreTick ==
    /\ now < StartClock + MaxTicks
    /\ now' = now + 1
    /\ UNCHANGED <<hashOrder, scoreVars, searchVars, evaluation, trendVars, embedVars>>

ScoreNext == Calculate \/ Recalculate \/ ScoreTick

SpecScore == ScoreInit /\ [][ScoreNext]_vars

\* ------------------------------------------------------------------------
\* Properties of calculate_comprehensive_risk
\* ------------------------------------------------------------------------
Called == request # NoCall
Returned == assessment.status = "returned"

\* no field of the customer document is None
NoNullField(cd) == cd.annualIncome # Null /\ cd.occupation # NullStr

\* C1: every returned assessment has 0 <= overall_risk_score <= 100 and
\* 0.1 <= confidence_score <= 1.0.
C1_ScoreAndConfidenceInRange ==
    Returned =>
        /\ 0 <= assessment.overall_risk_score
        /\ assessment.overall_risk_score <= 10000000
        /\ FLeq(F0_1, assessment.confidence_score)
        /\ FLeq(assessment.confidence_score, F1_0)

\* a returned assessment whose weighted base score alone exceeds 100 and
\* whose confidence sums to more than 1.0 before the clamp
C1_BothClampsActed ==
    /\ Returned
    /\ assessment.score_breakdown.base_score > 100000
    /\ assessment.overall_risk_score = 10000000
    /\ BureauTruthy(request.bd) /\ Len(request.bd.accounts) > 0
    /\ Get(request.bd.credit_score, 0) > 0
    /\ Get(request.cd.annualIncome, 0) > 0 /\ Get(request.cd.employmentYears, 0) > 0
    /\ request.cd.occupation = "Hospitality"
    /\ assessment.confidence_score = F1_0

\* C2: the risk level of a returned assessment is CRITICAL from 75, HIGH
\* from 50 to below 75, MEDIUM from 25 to below 50 and LOW below 25, of its
\* overall_risk_score, which equals score_breakdown.final_score.
C2_LevelIsTierOfScore ==
    Returned =>
        LET score == assessment.overall_risk_score
            level == assessment.risk_level
        IN  /\ score = assessment.score_breakdown.final_score
            /\ (level = "CRITICAL") <=> (score >= 7500000)
            /\ (level = "HIGH") <=> (5000000 <= score /\ score < 7500000)
            /\ (level = "MEDIUM") <=> (2500000 <= score /\ score < 5000000)
            /\ (level = "LOW") <=> (score < 2500000)

\* an assessment whose score is exactly 75.0
C2_ScoreOnBoundary ==
    /\ Returned
    /\ assessment.overall_risk_score = 7500000
    /\ assessment.risk_level = "CRITICAL"

\* C3: a call and the next call with the same arguments return equal
\* assessments (the timestamp is not part of the model's assessment).
C3_SameArgumentsSameAssessment ==
    prevAssessment # NoCall => assessment = prevAssessment

\* the request with the credit score the engine uses set to s
WithEngineScore(req, s) ==
    IF BureauTruthy(req.bd) /\ req.bd.credit_score # Absent
    THEN [req EXCEPT !.bd.credit_score = s]
    ELSE [req EXCEPT !.cd.creditScore = s]

\* the engine reads a credit score field of the request
HasScoreField(req) ==
    (BureauTruthy(req.bd) /\ req.bd.credit_score # Absent) \/ req.cd.hasProfile

\* overall_risk_score of the request at the time of the last call
ScoreOf(req) ==
    calculate_comprehensive_risk(req.cd, req.ad, req.bd, req.mc, req.clock,
                                 hashOrder).overall_risk_score

\* the last call's score against the score of the same request with the
\* engine's credit score replaced by each score of S
MonotoneOver(S) ==
    LET used == EngineCreditScore(request.cd, request.bd)
    IN  \A s \in S :
            /\ used < s => assessment.overall_risk_score >= ScoreOf(WithEngineScore(request, s))
            /\ s < used => ScoreOf(WithEngineScore(request, s)) >= assessment.overall_risk_score

\* credit scores at and around every band edge and severity threshold
AllScores == CreditScores \ {Absent}
BandedScores == {s \in AllScores : 300 <= s /\ s <= 850}

\* C4 as stated: over the whole integer range, a lower credit score never
\* gives a lower overall_risk_score.
C4_MonotoneOverAllScores ==
    (Returned /\ HasScoreField(request)) => MonotoneOver(AllScores)

\* C4 as amended: for two credit scores within the banded range 300..850,
\* the lower one never gives a lower overall_risk_score.
C4_MonotoneWithinBands ==
    (Returned /\ HasScoreField(request)
        /\ EngineCreditScore(request.cd, request.bd) \in BandedScores)
    => MonotoneOver(BandedScores)

\* a call with credit score 599 whose score is strictly above the score of
\* the same request with 600
C4_ScoreDropsAt600 ==
    /\ Returned /\ HasScoreField(request)
    /\ EngineCreditScore(request.cd, request.bd) = 599
    /\ assessment.overall_risk_score > ScoreOf(WithEngineScore(request, 600))
    /\ assessment.overall_risk_score < 10000000

MissingBureau(req) == req.bd.kind \in {"none", "empty"}

\* a - b >= d, computed exactly
FDiffAtLeast(a, b, d) == ~FLess(FNorm(a[1] - b[1], a[2] - b[2]), d)

\* the least multiple of 2^-57 that is at least 0.2, and 2^-52 less
RealFifth == <<53687091, 107374183>>
FifthLessUlp == <<53687091, 107374151>>

\* the last call was made without bureau data and did not raise, its
\* behavioral component is the flat 25 with no BEHAVIORAL factor, and
\* its confidence is at least d below that of the same request with each
\* bureau report
MissingBureauDegrades(d) ==
    /\ Returned
    /\ assessment.score_breakdown.behavioral_component = 250
    /\ \A i \in 1..Len(assessment.risk_factors) :
           assessment.risk_factors[i].factor_type # "BEHAVIORAL"
    /\ \A bd \in BureauData :
           BureauTruthy(bd) =>
               LET with == calculate_comprehensive_risk(request.cd, request.ad, bd,
                               request.mc, request.clock, hashOrder)
               IN  /\ with.status = "returned"
                   /\ FDiffAtLeast(with.confidence_score, assessment.confidence_score, d)

SearchArguments ==
    {<<"card fraud", "month">>, <<"card fraud", "week">>}

\* one query written in two ways, with one time filter
CaseArguments ==
    {<<"card fraud", "month">>, <<" Card  Fraud", "month">>}

\* what a provider answers: one of its result pages, or an error or a
\* timeout of the request
NewsAnswers == {"news page 1"}
WebAnswers == {"web page 1", "error"}

\* the most search_fraud_trends calls, and the most times the clock
\* advances, by TickHours each time
MaxSearches == 3
MaxSearchTicks == 2
TickHours == 3

\* f"fraud_trends_{hash(query)}_{time_filter}": equal queries have equal
\* hashes, and the queries of Queries have different ones
cache_key(query, time_filter) == <<"fraud_trends", query, time_filter>>

\* timedelta(hours=6)
cache_hours == 6

\* an entry of that age is served as well
is_fresh_inclusive(entry, t) == t - entry.timestamp <= cache_hours

\* cache_age < timedelta(hours=6)
is_fresh(entry, t) == t - entry.timestamp < cache_hours

\* _search_news and _search_web: the processed results, [] on any error
search_results(answer) == IF answer = "error" THEN << >> ELSE << answer >>

\* _extract_fraud_insights(_analyze_search_results(query, all_results)):
\* the insights are determined by the query and the results
fraud_insights(query, all_results) == [search_query |-> query, results |-> all_results]

NoData == [search_query |-> "", results |-> << >>]

\* the new data under the timestamp the key already had
write_entry_keeping_timestamp(entries, key, data, t) ==
    [k \in DOMAIN entries \cup {key} |->
        IF k # key THEN entries[k]
        ELSE IF key \in DOMAIN entries
        THEN [data |-> data, timestamp |-> entries[key].timestamp]
        ELSE [data |-> data, timestamp |-> t]]

\* the entry the key already has is kept
write_entry_if_absent(entries, key, data, t) ==
    [k \in DOMAIN entries \cup {key} |->
        IF k \in DOMAIN entries THEN entries[k]
        ELSE [data |-> data, timestamp |-> t]]

\* self._cache[cache_key] = {'data': fraud_insights, 'timestamp': datetime.now()}
write_entry(entries, key, data, t) ==
    [k \in DOMAIN entries \cup {key} |->
        IF k = key THEN [data |-> data, timestamp |-> t] ELSE entries[k]]

\* the plugin after __init__, with callers that search for the pairs of
\* arguments
PluginInit(arguments) ==
    /\ now = StartClock
    /\ hashOrder = "first_seen"
    /\ request = NoCall /\ assessment = NoCall /\ prevAssessment = NoCall
    /\ cache = EmptyCache /\ searches = << >> /\ writeLog = << >>
    /\ queries = arguments
    /\ evaluation = NoEvaluation
    /\ articles = << >> /\ trends = NoCall
    /\ risk_indicators = << >> /\ recommendations = NoCall
    /\ embedder = NoCall /\ context = NoCall

SearchInit == PluginInit(SearchArguments)

\* callers whose queries differ in letter case and white space only
CaseInit == PluginInit(CaseArguments)

\* search_fraud_trends from its call to the return of the cached data or to
\* the request to the news provider
SearchStart ==
    /\ Len(searches) < MaxSearches
    /\ \E arguments \in queries :
          LET query == arguments[1]
              time_filter == arguments[2]
              key == cache_key(query, time_filter)
              hit == key \in DOMAIN cache /\ is_fresh(cache[key], now)
          IN  searches' = Append(searches,
                  [query |-> query, time_filter |-> time_filter,
                   startedAt |-> now, writesBefore |-> Len(writeLog),
                   pc |-> IF hit THEN "done" ELSE "news",
                   providerCalls |-> IF hit THEN 0 ELSE 1,
                   news_results |-> << >>, web_results |-> << >>,
                   result |-> IF hit THEN cache[key].data ELSE NoData])
    /\ UNCHANGED <<now, hashOrder, scoreVars, cache, writeLog, queries, evaluation,
                   trendVars, embedVars>>

\* the news provider answers; the request to the web provider follows
NewsAnswer ==
    /\ \E c \in 1..Len(searches), answer \in NewsAnswers :
          /\ searches[c].pc = "news"
          /\ searches' = [searches EXCEPT ![c].news_results = search_results(answer),
                                          ![c].pc = "web",
                                          ![c].providerCalls = @ + 1]
    /\ UNCHANGED <<now, hashOrder, scoreVars, cache, writeLog, queries, evaluation,
                   trendVars, embedVars>>

\* the web provider answers; the insights are cached and returned
WebAnswer ==
    /\ \E c \in 1..Len(searches), answer \in WebAnswers :
          /\ searches[c].pc = "web"
          /\ LET call == searches[c]
                 key == cache_key(call.query, call.time_filter)
                 data == fraud_insights(call.query,
                             call.news_results \o search_results(answer))
             IN  /\ cache' = write_entry(cache, key, data, now)
                 /\ writeLog' = Append(writeLog, [key |-> key, data |-> data,
                                                   timestamp |-> now])
                 /\ searches' = [searches EXCEPT
                                    ![c].web_results = search_results(answer),
                                    ![c].pc = "done", ![c].result = data]
    /\ UNCHANGED <<now, hashOrder, scoreVars, queries, evaluation, trendVars, embedVars>>

\* time passes
SearchTick ==
    /\ now < StartClock + MaxSearchTicks * TickHours
    /\ now' = now + TickHours
    /\ UNCHANGED <<hashOrder, scoreVars, searchVars, evaluation, trendVars, embedVars>>

SearchNext == SearchStart \/ NewsAnswer \/ WebAnswer \/ SearchTick

SpecSearch == SearchInit /\ [][SearchNext]_vars

SpecSearchCase == CaseInit /\ [][SearchNext]_vars

\* callers that search for one pair of arguments
OutageArguments == {<<"card fraud", "month">>}

OutageInit == PluginInit(OutageArguments)

\* the request to the news provider fails or times out: _search_news
\* returns []; the request to the web provider follows
NewsError ==
    /\ \E c \in 1..Len(searches) :
          /\ searches[c].pc = "news"
          /\ searches' = [searches EXCEPT ![c].news_results = search_results("error"),
                                          ![c].pc = "web",
                                          ![c].providerCalls = @ + 1]
    /\ UNCHANGED <<now, hashOrder, scoreVars, cache, writeLog, queries, evaluation,
                   trendVars, embedVars>>

OutageNext == SearchNext \/ NewsError

SpecSearchOutage == OutageInit /\ [][OutageNext]_vars

\* ------------------------------------------------------------------------
\* Properties of the search cache
\* ------------------------------------------------------------------------
\* the writes of call c's key that were complete when c was made
WritesSeenBy(c) ==
    {i \in 1..searches[c].writesBefore :
        writeLog[i].key = cache_key(searches[c].query, searches[c].time_filter)}

\* call c returned data without a provider call
ServedFromCache(c, data) ==
    /\ searches[c].pc = "done"
    /\ searches[c].providerCalls = 0
    /\ searches[c].result = data

\* c is the first call of its key made 6 hours or more after write i
FirstCallAfterExpiry(c, i) ==
    /\ searches[c].startedAt - writeLog[i].timestamp >= 6
    /\ \A b \in 1..(c - 1) :
           ~ /\ cache_key(searches[b].query, searches[b].time_filter) = writeLog[i].key
             /\ searches[b].writesBefore >= i
             /\ searches[b].startedAt - writeLog[i].timestamp >= 6

\* C7 as stated: a call made less than 6 hours after a write of its key
\* returns that write's data without a provider call, and the first call
\* made 6 hours or more after the write issues provider calls.
C7_ServedFromAnyWriteWithinSixHours ==
    \A c \in 1..Len(searches) : \A i \in WritesSeenBy(c) :
        /\ searches[c].startedAt - writeLog[i].timestamp < 6
               => ServedFromCache(c, writeLog[i].data)
        /\ FirstCallAfterExpiry(c, i) => searches[c].providerCalls > 0

Latest(S) == CHOOSE i \in S : \A j \in S : j <= i

\* C7 as amended: a call made less than 6 hours after the latest write of
\* its key returns that write's data without a provider call; a call made
\* when its key was never written, or 6 hours or more after the latest
\* write, issues provider calls.
C7_ServedFromLatestWriteWithinSixHours ==
    \A c \in 1..Len(searches) :
        IF WritesSeenBy(c) = {}
        THEN searches[c].providerCalls > 0
        ELSE LET w == writeLog[Latest(WritesSeenBy(c))]
             IN  IF searches[c].startedAt - w.timestamp < 6
                 THEN ServedFromCache(c, w.data)
                 ELSE searches[c].providerCalls > 0

\* two overlapping calls wrote different data for one key, and a third
\* call, less than 6 hours after both writes, was served the later data
C7_ServedAfterOverlappingWrites ==
    /\ Len(searches) = 3 /\ Len(writeLog) = 2
    /\ writeLog[1].key = writeLog[2].key
    /\ writeLog[1].data # writeLog[2].data
    /\ WritesSeenBy(3) = {1, 2}
    /\ searches[3].startedAt - writeLog[1].timestamp < 6
    /\ ServedFromCache(3, writeLog[2].data)

KeyOf(c) == cache_key(searches[c].query, searches[c].time_filter)

\* the writes of the key k, in the order they were made
WritesOf(k) == {i \in 1..Len(writeLog) : writeLog[i].key = k}

\* calls b and c, for one key, were both in progress at one time: each was
\* made before the other wrote
Overlapping(b, c) ==
    /\ b < c /\ KeyOf(b) = KeyOf(c)
    /\ searches[b].providerCalls > 0 /\ searches[c].providerCalls > 0
    /\ searches[b].pc = "done" /\ searches[c].pc = "done"
    /\ \E i, j \in WritesOf(KeyOf(c)) :
           /\ i # j
           /\ i > searches[b].writesBefore /\ i > searches[c].writesBefore
           /\ j > searches[b].writesBefore /\ j > searches[c].writesBefore

\* C17: whatever the interleaving of the calls, a call that has returned
\* has returned the data of a write that was complete when it read the
\* cache, or the insights of the results it fetched itself; and the cache
\* holds, for each key written and for no other, one entry, whose data and
\* timestamp are those of the latest write of the key.
C17_OverlappingCallsKeepOneWholeEntry ==
    /\ \A c \in 1..Len(searches) :
           /\ searches[c].pc \in {"news", "web", "done"}
           /\ searches[c].pc = "done" =>
                  IF searches[c].providerCalls = 0
                  THEN \E i \in WritesSeenBy(c) : searches[c].result = writeLog[i].data
                  ELSE searches[c].result =
                           fraud_insights(searches[c].query,
                               searches[c].news_results \o searches[c].web_results)
    /\ DOMAIN cache = {writeLog[i].key : i \in 1..Len(writeLog)}
    /\ \A k \in DOMAIN cache :
           LET w == writeLog[Latest(WritesOf(k))]
           IN  cache[k] = [data |-> w.data, timestamp |-> w.timestamp]

\* two overlapping calls of one key have both fetched and both written,
\* different data at different times, and the entry is the later write
C17_TwoOverlappingWriters ==
    /\ Len(searches) >= 2 /\ Len(writeLog) = 2
    /\ Overlapping(1, 2)
    /\ writeLog[1].data # writeLog[2].data
    /\ writeLog[1].timestamp < writeLog[2].timestamp
    /\ cache[KeyOf(1)] = [data |-> writeLog[2].data,
                          timestamp |-> writeLog[2].timestamp]

\* the text without its leading white space
RECURSIVE StripLeft(_)
StripLeft(s) ==
    IF Len(s) > 0 /\ SubSeq(s, 1, 1) = " " THEN StripLeft(SubSeq(s, 2, Len(s))) ELSE s

\* the text with each run of white space made one blank, and none at the end
RECURSIVE Collapse(_)
Collapse(s) ==
    IF Len(s) = 0 THEN ""
    ELSE IF SubSeq(s, 1, 1) # " " THEN SubSeq(s, 1, 1) \o Collapse(SubSeq(s, 2, Len(s)))
    ELSE LET rest == StripLeft(s)
         IN  IF Len(rest) = 0 THEN "" ELSE " " \o Collapse(rest)

\* the normalized query text: lower case, no leading, trailing or repeated
\* white space
NormalizedQuery(query) == Collapse(StripLeft(LowerText(query)))

\* calls b and c ask for one normalized query with one time filter
SameNormalized(b, c) ==
    /\ NormalizedQuery(searches[b].query) = NormalizedQuery(searches[c].query)
    /\ searches[b].time_filter = searches[c].time_filter

\* C19: a call made less than 6 hours after a call for the same normalized
\* query and time filter has written the cache is served from the cache
\* without a provider call, and the calls for one normalized query and time
\* filter share one cache entry.
C19_NormalizedQueriesShareEntry ==
    /\ \A b, c \in 1..Len(searches) : \A i \in 1..Len(writeLog) :
           ( /\ SameNormalized(b, c)
             /\ writeLog[i].key = KeyOf(b)
             /\ i <= searches[c].writesBefore
             /\ searches[c].startedAt - writeLog[i].timestamp < cache_hours )
           => searches[c].providerCalls = 0
    /\ \A b, c \in 1..Len(searches) :
           (SameNormalized(b, c) /\ KeyOf(b) \in DOMAIN cache /\ KeyOf(c) \in DOMAIN cache)
           => KeyOf(b) = KeyOf(c)

\* call c found an entry of its key aged 6 hours or more
FoundExpired(c) ==
    /\ WritesSeenBy(c) # {}
    /\ searches[c].startedAt - writeLog[Latest(WritesSeenBy(c))].timestamp >= cache_hours

\* C20: a call that returns cached data returns the data of the entry it
\* found, and that entry is less than 6 hours old; a call that finds an
\* entry aged 6 hours or more, exactly 6 hours included, fetches again, and
\* when it has returned the expired entry is gone: the key has the one
\* entry of the latest write, made no earlier than the call.
C20_ExpiredEntryRefetchedAndReplaced ==
    \A c \in 1..Len(searches) :
        /\ (searches[c].pc = "done" /\ searches[c].providerCalls = 0) =>
               /\ WritesSeenBy(c) # {}
               /\ LET w == writeLog[Latest(WritesSeenBy(c))]
                  IN  /\ searches[c].startedAt - w.timestamp < cache_hours
                      /\ searches[c].result = w.data
        /\ FoundExpired(c) =>
               /\ searches[c].providerCalls > 0
               /\ searches[c].pc = "done" =>
                      /\ KeyOf(c) \in DOMAIN cache
                      /\ cache[KeyOf(c)].timestamp >= searches[c].startedAt
                      /\ \E i \in WritesOf(KeyOf(c)) :
                             /\ i > searches[c].writesBefore
                             /\ writeLog[i].data = searches[c].result

\* a call made exactly 6 hours after the only write of its key has fetched
\* again, and its write has replaced the entry
C20_RefetchedAtExactlySixHours ==
    \E c \in 1..Len(searches) :
        /\ WritesSeenBy(c) # {} /\ Cardinality(WritesSeenBy(c)) = 1
        /\ searches[c].startedAt - writeLog[Latest(WritesSeenBy(c))].timestamp = cache_hours
        /\ searches[c].pc = "done" /\ searches[c].providerCalls = 2
        /\ Cardinality(WritesOf(KeyOf(c))) = 2
        /\ cache[KeyOf(c)] = [data |-> searches[c].result,
                              timestamp |-> writeLog[Len(writeLog)].timestamp]
        /\ cache[KeyOf(c)].timestamp >= searches[c].startedAt

\* ------------------------------------------------------------------------
\* CreditRiskAgent.evaluate_credit_risk
\* ------------------------------------------------------------------------
\* the retrievals, in the order of the steps 1 to 3
Retrievals == <<"credit_bureau", "policy_context", "market_research">>

EvaluationCustomers == {Prime, Subprime, NegativeIncome}
CustomerIds == {"CUST-001", AbsentStr}

\* self.plugins after the calls of register_plugin
PluginSets == SUBSET {"credit_bureau", "market_research"}

\* what plugins['credit_bureau'].get_credit_report returns
BureauAnswers == {GoodBureau, EmptyBureau}

\* what get_context_for_query returns: the context documents
PolicyAnswers == {<< >>, << "policy document" >>}

\* search_fraud_trends when both provider searches failed: the three
\* general recommendations, as insights of LOW severity
DegradedMarket ==
    [i \in 1..3 |-> Insight("LOW", "Maintain ongoing monitoring of fraud trend evolution")]

\* _get_fallback_insights
FallbackMarket == << Insight("LOW", "Unable to retrieve current market intelligence") >>

\* what search_fraud_trends returns: it raises nothing
MarketAnswers == {FraudMarket, DegradedMarket, FallbackMarket}

\* the retrieval and the one after it are requested together
issue_retrieval_with_next(ev, name) ==
    [ev EXCEPT !.pc = name,
               !.issued = IF name = "credit_bureau"
                          THEN @ \o << name, "policy_context" >>
                          ELSE Append(@, name)]

\* the call of a provider, awaited at once
issue_retrieval(ev, name) ==
    [ev EXCEPT !.pc = name, !.issued = Append(@, name)]

\* except Exception as e: log; raise
raise_error(ev, error) == [ev EXCEPT !.pc = "raised", !.error = error]

\* _perform_ai_risk_analysis: doc['content'] of a ContextDocument, and
\* json.dumps of the RiskAssessment, raise TypeError before the request to
\* the model is made
perform_ai_risk_analysis(ev) ==
    raise_error([ev EXCEPT !.analysis = "failed"], "TypeError")

\* as analyse_if_scored, with the scored assessment handed to the Store
\* before the analysis of step 5
analyse_if_scored_storing_first(ev, risk_score_data) ==
    IF risk_score_data.status = "raised"
    THEN raise_error(ev, risk_score_data.error)
    ELSE perform_ai_risk_analysis([ev EXCEPT !.assessment = risk_score_data,
                                             !.storeCalls = Append(@, risk_score_data)])

\* step 5 when step 4 returned, the error of step 4 when it raised
analyse_if_scored(ev, risk_score_data) ==
    IF risk_score_data.status = "raised"
    THEN raise_error(ev, risk_score_data.error)
    ELSE perform_ai_risk_analysis([ev EXCEPT !.assessment = risk_score_data])

\* steps 4 and 5
calculate_and_analyse(ev) ==
    analyse_if_scored(ev,
        calculate_comprehensive_risk(ev.cd, ev.ad, ev.bureau_data,
                                     ev.market_insights, now, hashOrder))

\* the scoring without the market research before it
market_step_scoring_first(ev) == calculate_and_analyse(ev)

\* step 3: market research, if requested and registered
market_step(ev) ==
    IF ev.include_market_research /\ "market_research" \in ev.plugins
    THEN issue_retrieval(ev, "market_research")
    ELSE calculate_and_analyse(ev)

\* step 2: _get_policy_context; get_context_for_query returns [] at once
\* when no search service is configured
policy_step(ev) ==
    IF ev.search_configured
    THEN issue_retrieval(ev, "policy_context")
    ELSE market_step(ev)

\* step 1: the bureau report, if the plugin is registered
bureau_step(ev) ==
    IF "credit_bureau" \in ev.plugins
    THEN issue_retrieval(ev, "credit_bureau")
    ELSE policy_step(ev)

\* what json.loads makes of the answer of the chat completion, in the
\* format the prompt asks for: the Reasoner's own score (in 10^-5), tier and
\* confidence, and its narrative
ReasonerResponses ==
    {[risk_score |-> 1000000, risk_level |-> "LOW", confidence_score |-> F0_9,
      risk_factors |-> << >>, compliance_notes |-> << "ECOA reviewed" >>,
      recommendation |-> "Approve with standard terms"],
     [risk_score |-> 9500000, risk_level |-> "CRITICAL", confidence_score |-> F0_5,
      risk_factors |-> << >>, compliance_notes |-> << "Adverse action notice" >>,
      recommendation |-> "Decline"]}

\* step 7: the RiskEvaluation that is stored and returned
risk_evaluation(customer_id, risk_analysis, market_insights) ==
    [customer_id |-> customer_id,
     overall_risk_score |-> risk_analysis.risk_score,
     risk_level |-> risk_analysis.risk_level,
     risk_factors |-> risk_analysis.risk_factors,
     market_insights |-> Prefix(market_insights, 3),
     compliance_notes |-> risk_analysis.compliance_notes,
     recommendation |-> risk_analysis.recommendation,
     confidence_score |-> risk_analysis.confidence_score]

\* CosmosDBService.store_risk_evaluation: an error of the initialization
\* or of create_item is raised to the caller; an error of the audit entry
\* is only logged
store_risk_evaluation(initialized, item_created, audit_logged) ==
    IF initialized /\ item_created THEN "stored" ELSE "raised"

\* step 8 and the return: the Store call is awaited inside the try, whose
\* handler logs and raises again
end_of_evaluation(store_result) ==
    IF store_result = "stored" THEN "returned" ELSE "raised"

\* steps 7 and 8 and the return, from the analysis step 5 returned: the
\* one call of the Store is given asdict() of the RiskEvaluation, which is
\* returned when the Store has stored it
store_and_return(ev, risk_analysis, initialized, item_created, audit_logged) ==
    LET evaluation_made == risk_evaluation(ev.customerId, risk_analysis,
                                           ev.market_insights)
        called == [ev EXCEPT !.storeCalls = Append(@, evaluation_made),
                             !.analysis = "done"]
    IN  IF end_of_evaluation(store_risk_evaluation(initialized, item_created,
                                                   audit_logged)) = "returned"
        THEN [called EXCEPT !.pc = "returned"]
        ELSE raise_error(called, "StoreError")

EvalInit ==
    /\ now = StartClock
    /\ hashOrder \in HashOrders
    /\ request = NoCall /\ assessment = NoCall /\ prevAssessment = NoCall
    /\ cache = EmptyCache /\ searches = << >> /\ writeLog = << >>
    /\ queries = {}
    /\ evaluation = NoEvaluation
    /\ articles = << >> /\ trends = NoCall
    /\ risk_indicators = << >> /\ recommendations = NoCall
    /\ embedder = NoCall /\ context = NoCall

\* evaluate_credit_risk from its call to its first await
StartEvaluation ==
    /\ evaluation.pc = "idle"
    /\ \E customerId \in CustomerIds, cd \in EvaluationCustomers,
          ad \in ApplicationData, include_market_research \in BOOLEAN,
          plugins \in PluginSets, search_configured \in BOOLEAN :
          LET ev == [pc |-> "started", customerId |-> customerId, cd |-> cd,
                     ad |-> ad,
                     include_market_research |-> include_market_research,
                     plugins |-> plugins, search_configured |-> search_configured,
                     issued |-> << >>, resolved |-> {}, failed |-> "none",
                     unanswered |-> FALSE,
                     bureau_data |-> EmptyBureau, policy_context |-> << >>,
                     market_insights |-> << >>, assessment |-> NoCall,
                     analysis |-> "none", error |-> "", storeCalls |-> << >>]
          IN  evaluation' = IF customerId = AbsentStr
                            THEN raise_error(ev, "KeyError")
                            ELSE bureau_step(ev)
    /\ UNCHANGED <<now, hashOrder, scoreVars, searchVars, trendVars, embedVars>>

\* the bureau plugin returns a report
BureauAnswer ==
    /\ evaluation.pc = "credit_bureau" /\ ~evaluation.unanswered
    /\ \E report \in BureauAnswers :
          evaluation' = policy_step([evaluation EXCEPT
                            !.bureau_data = report,
                            !.resolved = @ \cup {"credit_bureau"}])
    /\ UNCHANGED <<now, hashOrder, scoreVars, searchVars, trendVars, embedVars>>

\* the bureau plugin raises
BureauError ==
    /\ evaluation.pc = "credit_bureau" /\ ~evaluation.unanswered
    /\ evaluation' = raise_error([evaluation EXCEPT !.failed = "credit_bureau"],
                                 "ProviderError")
    /\ UNCHANGED <<now, hashOrder, scoreVars, searchVars, trendVars, embedVars>>

\* the bureau plugin never returns: get_credit_report is awaited with no
\* timeout, and the coroutine stays at its await
BureauSilent ==
    /\ evaluation.pc = "credit_bureau" /\ ~evaluation.unanswered
    /\ evaluation' = [evaluation EXCEPT !.unanswered = TRUE]
    /\ UNCHANGED <<now, hashOrder, scoreVars, searchVars, trendVars, embedVars>>

\* get_context_for_query returns the context documents
PolicyAnswer ==
    /\ evaluation.pc = "policy_context"
    /\ \E documents \in PolicyAnswers :
          evaluation' = market_step([evaluation EXCEPT
                            !.policy_context = documents,
                            !.resolved = @ \cup {"policy_context"}])
    /\ UNCHANGED <<now, hashOrder, scoreVars, searchVars, trendVars, embedVars>>

\* the embedding or the vector search fails: get_context_for_query logs
\* and raises again
PolicyError ==
    /\ evaluation.pc = "policy_context"
    /\ evaluation' = raise_error([evaluation EXCEPT !.failed = "policy_context"],
                                 "ProviderError")
    /\ UNCHANGED <<now, hashOrder, scoreVars, searchVars, trendVars, embedVars>>

\* search_fraud_trends returns insights; steps 4 and 5 follow
MarketAnswer ==
    /\ evaluation.pc = "market_research"
    /\ \E insights \in MarketAnswers :
          evaluation' = calculate_and_analyse([evaluation EXCEPT
                            !.market_insights = insights,
                            !.failed = IF insights = FraudMarket
                                       THEN "none" ELSE "market_research",
                            !.resolved = @ \cup {"market_research"}])
    /\ UNCHANGED <<now, hashOrder, scoreVars, searchVars, trendVars, embedVars>>

EvalNext ==
    \/ StartEvaluation
    \/ BureauAnswer \/ BureauError \/ BureauSilent
    \/ PolicyAnswer \/ PolicyError
    \/ MarketAnswer

SpecEval == EvalInit /\ [][EvalNext]_vars

\* ------------------------------------------------------------------------
\* Properties of evaluate_credit_risk
\* ------------------------------------------------------------------------
Started == evaluation.pc # "idle"

\* the evaluation makes all three retrievals
AllRetrievalsConfigured ==
    /\ evaluation.customerId # AbsentStr
    /\ evaluation.plugins = {"credit_bureau", "market_research"}
    /\ evaluation.include_market_research
    /\ evaluation.search_configured

Awaiting == evaluation.pc \in {"credit_bureau", "policy_context", "market_research"}

IssuedSet == {evaluation.issued[i] : i \in 1..Len(evaluation.issued)}

StepOf(name) == CHOOSE i \in 1..3 : Retrievals[i] = name

C9_ProviderFailureNotSurfaced ==
    (Started /\ evaluation.failed # "none") =>
        /\ evaluation.error # "ProviderError"
        /\ ~Awaiting => evaluation.assessment # NoCall

\* C10: an evaluation whose Reasoner analysis failed is returned, carrying
\* the score, tier and confidence of the scoring engine.
C10_AnalysisFailureStillReturned ==
    (Started /\ evaluation.analysis = "failed") =>
        /\ evaluation.pc = "returned"
        /\ evaluation.assessment.status = "returned"

\* the scoring of step 4 returned an assessment
Scored == Started /\ evaluation.assessment.status = "returned"

\* the evaluation has left its last await
Ended == Started /\ ~Awaiting

\* C11: an evaluation that was scored is handed back to the caller whatever
\* becomes of persisting it: once it has ended it has ended by returning,
\* not by raising, and the Store call ends in the return whether the Store
\* has stored the evaluation or failed.
C11_ReturnedWhateverTheStoreDoes ==
    Scored =>
        /\ Ended => evaluation.pc = "returned"
        /\ \A initialized, item_created, audit_logged \in BOOLEAN :
               end_of_evaluation(store_risk_evaluation(initialized, item_created,
                                                       audit_logged)) = "returned"

\* the request is malformed: it carries no customerId, or an annual income
\* below zero
Malformed ==
    \/ evaluation.customerId = AbsentStr
    \/ /\ evaluation.cd.annualIncome \notin {Absent, Null}
       /\ evaluation.cd.annualIncome < 0

\* C12: the evaluation of a malformed request has raised, and it has issued
\* no retrieval, run no scoring and no analysis.
C12_MalformedFailsBeforeRetrieval ==
    (Started /\ Malformed) =>
        /\ evaluation.pc = "raised"
        /\ evaluation.issued = << >>
        /\ evaluation.assessment = NoCall
        /\ evaluation.analysis = "none"

\* the retrievals the evaluation makes: the bureau report with the plugin
\* registered, the policy context with a search service, the market
\* research when requested and registered
Configured ==
    {name \in {"credit_bureau"} : "credit_bureau" \in evaluation.plugins}
    \cup {name \in {"policy_context"} : evaluation.search_configured}
    \cup {name \in {"market_research"} :
             evaluation.include_market_research
             /\ "market_research" \in evaluation.plugins}

\* the steps taken so far stand in the order of the pipeline
StepsInOrder ==
    Started =>
        /\ evaluation.pc \in {"credit_bureau", "policy_context",
                              "market_research", "raised", "returned"}
        /\ \A i, j \in 1..Len(evaluation.issued) :
               i < j => StepOf(evaluation.issued[i]) < StepOf(evaluation.issued[j])
        /\ evaluation.resolved \subseteq IssuedSet
        /\ evaluation.assessment # NoCall =>
               /\ evaluation.pc \in {"raised", "returned"}
               /\ IssuedSet = Configured
               /\ evaluation.resolved = Configured
        /\ evaluation.analysis # "none" => evaluation.assessment.status = "returned"
        /\ evaluation.pc = "returned" => evaluation.analysis = "done"

\* a step taken is not taken again, and nothing follows the end
NoStepRepeated ==
    Started =>
        /\ evaluation.pc \in {"raised", "returned"} => evaluation' = evaluation
        /\ evaluation.resolved \subseteq evaluation'.resolved
        /\ Len(evaluation'.issued) >= Len(evaluation.issued)
        /\ SubSeq(evaluation'.issued, 1, Len(evaluation.issued)) = evaluation.issued
        /\ Len(evaluation'.issued) <= Len(evaluation.issued) + 1
        /\ evaluation.assessment # NoCall =>
               evaluation'.assessment = evaluation.assessment

\* C13: the steps of an evaluation are taken in the fixed order retrieval,
\* scoring, analysis, end: the scoring runs only when every retrieval the
\* evaluation makes has resolved, the analysis only after the scoring has
\* returned, no retrieval is issued twice or out of order, the scoring is
\* not run twice, and an evaluation that has returned or raised takes no
\* further step.
C13_StepsInFixedOrder == []StepsInOrder /\ [][NoStepRepeated]_vars

\* all three retrievals resolved in turn, then the scoring, then the
\* analysis, and the evaluation has ended
C13_AllStepsTaken ==
    /\ Started /\ AllRetrievalsConfigured
    /\ evaluation.issued = Retrievals
    /\ evaluation.resolved = {"credit_bureau", "policy_context", "market_research"}
    /\ evaluation.assessment.status = "returned"
    /\ evaluation.analysis # "none"
    /\ evaluation.pc = "raised"

\* C14: an evaluation that has neither returned nor raised can take a
\* further step: the provider it waits for answers or fails, or the timeout
\* of the call moves the evaluation on, even when the provider never answers.
C14_UnfinishedEvaluationProceeds ==
    (Started /\ evaluation.pc \notin {"raised", "returned"}) => ENABLED EvalNext

\* the request of the scenario: declared credit score 590, income 22000,
\* debt payments of 0.55 of the monthly income, half a year of employment,
\* a bureau report with 6 recent hard inquiries and 2 delinquent accounts
\* of 4; occupation, requested limit and market context are free
SubprimeScenario ==
    /\ Called
    /\ request.cd.hasProfile /\ request.cd.creditScore = 590
    /\ request.cd.annualIncome = 22000 /\ request.cd.monthlyDebtPayments = 1009
    /\ request.cd.employmentYears = 5
    /\ request.bd = DelinquentBureau

\* the accounts of the report with a delinquency
DelinquentOf(bd) ==
    {i \in 1..Len(bd.accounts) :
        /\ bd.accounts[i].delinquencies \notin {Absent, Null}
        /\ bd.accounts[i].delinquencies > 0}

\* more than 30% of the accounts of the report are delinquent
MostlyDelinquent(bd) ==
    /\ bd.kind = "dict"
    /\ 10 * Cardinality(DelinquentOf(bd)) > 3 * Len(bd.accounts)

HasCriticalFactor(a) ==
    \E i \in 1..Len(a.risk_factors) : a.risk_factors[i].severity = "CRITICAL"

HasCriticalDelinquency(a) ==
    \E i \in 1..Len(a.risk_factors) :
        /\ a.risk_factors[i].factor_name = "payment_delinquencies"
        /\ a.risk_factors[i].severity = "CRITICAL"

\* C15: the assessment of the subprime scenario has the tier CRITICAL and a
\* factor of severity CRITICAL, and every assessment made with a bureau
\* report in which more than 30% of the accounts are delinquent carries a
\* payment_delinquencies factor of severity CRITICAL.
C15_DelinquencyIsCritical ==
    (Called /\ Returned) =>
        /\ SubprimeScenario =>
               /\ assessment.risk_level = "CRITICAL"
               /\ HasCriticalFactor(assessment)
        /\ MostlyDelinquent(request.bd) => HasCriticalDelinquency(assessment)

\* the scenario has been scored
C15_ScenarioScored ==
    /\ Called /\ Returned /\ SubprimeScenario
    /\ MostlyDelinquent(request.bd)
    /\ assessment.risk_level = "CRITICAL"

\* ------------------------------------------------------------------------
\* MarketResearchPlugin._identify_fraud_trends
\* ------------------------------------------------------------------------
NewsArticle(title, description, source) ==
    [title |-> title, description |-> description, source |-> source]

\* fraud_keywords, in dict order
fraud_keywords ==
    << [trend_type |-> "credit_card_skimming",
        keywords |-> <<"skimming", "card reader", "ATM fraud", "point of sale">>],
       [trend_type |-> "identity_theft",
        keywords |-> <<"identity theft", "social security",
                       "personal information", "data breach">>],
       [trend_type |-> "synthetic_fraud",
        keywords |-> <<"synthetic identity", "fake identity", "identity creation">>],
       [trend_type |-> "account_takeover",
        keywords |-> <<"account takeover", "credential stuffing", "password breach">>],
       [trend_type |-> "online_fraud",
        keywords |-> <<"online fraud", "e-commerce fraud", "digital fraud", "phishing">>] >>

\* (article.title + ' ' + article.description).lower()
article_content(article) ==
    LowerText(article.title \o " " \o article.description)

\* sum(1 for keyword in keywords if keyword.lower() in content)
keyword_matches(keywords, content) ==
    Cardinality({k \in 1..Len(keywords) : Contains(LowerText(keywords[k]), content)})

\* the severity indicator of one matching article
severity_indicator(content) ==
    IF \E word \in {"surge", "increase", "rising", "epidemic"} : Contains(word, content)
    THEN "HIGH"
    ELSE IF \E word \in {"concern", "alert", "warning"} : Contains(word, content)
    THEN "MEDIUM"
    ELSE "LOW"

\* HIGH and MEDIUM from a single indicator
overall_severity_of_any(severity_indicators) ==
    LET severity_counts(sev) ==
            Cardinality({i \in 1..Len(severity_indicators) : severity_indicators[i] = sev})
    IN  IF severity_counts("HIGH") >= 1 THEN "HIGH"
        ELSE IF severity_counts("MEDIUM") >= 1 THEN "MEDIUM"
        ELSE "LOW"

\* the overall severity from the counts of the indicators
overall_severity(severity_indicators) ==
    LET severity_counts(sev) ==
            Cardinality({i \in 1..Len(severity_indicators) : severity_indicators[i] = sev})
    IN  IF severity_counts("HIGH") >= 2 THEN "HIGH"
        ELSE IF severity_counts("MEDIUM") >= 2 THEN "MEDIUM"
        ELSE "LOW"

\* _extract_prevention_strategies: strategies[:3]
prevention_strategies ==
    << "Enhanced identity verification procedures",
       "Real-time transaction monitoring",
       "Multi-factor authentication implementation" >>

\* min(0.9, len(matching_articles) * 0.15)
confidence_level(n) == FMin(F0_9, FMulInt(n, F0_15))

\* the trend of one keyword category, << >> when no article matches; the
\* fields affected_demographics and impact_description, mined from the
\* matching articles, are not modelled
category_trends(category, contents, sources) ==
    LET Matching(i) == keyword_matches(category.keywords, contents[i]) > 0
        matching == SelectSeq([i \in 1..Len(contents) |-> i], Matching)
        severity_indicators ==
            [k \in 1..Len(matching) |-> severity_indicator(contents[matching[k]])]
    IN  IF matching = << >> THEN << >>
        ELSE << [trend_type |-> category.trend_type,
                 severity |-> overall_severity(severity_indicators),
                 prevention_strategies |-> prevention_strategies,
                 data_sources |-> [k \in 1..Len(matching) |-> sources[matching[k]]],
                 confidence_level |-> confidence_level(Len(matching))] >>

RECURSIVE trends_from(_, _, _)
trends_from(c, contents, sources) ==
    IF c > Len(fraud_keywords) THEN << >>
    ELSE category_trends(fraud_keywords[c], contents, sources)
         \o trends_from(c + 1, contents, sources)

identify_fraud_trends(list) ==
    trends_from(1, [i \in 1..Len(list) |-> article_content(list[i])],
                   [i \in 1..Len(list) |-> list[i].source])

\* articles: skimming with a HIGH word, with a MEDIUM word, with neither;
\* phishing and identity theft with a HIGH word inside another word; an
\* article of no category
SkimmingSurge ==
    NewsArticle("ATM Skimming Surge", "Card skimming devices found at gas pumps", "Reuters")
SkimmingWarning ==
    NewsArticle("Skimming warning", "Banks check every Card Reader", "AP")
SkimmingReport ==
    NewsArticle("Skimming devices", "Police report on point of sale terminals", "Gazette")
PhishingTheft ==
    NewsArticle("Phishing and Identity Theft", "A surprising number of cases", "BBC")
Earnings ==
    NewsArticle("Quarterly earnings", "Profit increase at regional lender", "FT")

Articles == {SkimmingSurge, SkimmingWarning, SkimmingReport, PhishingTheft, Earnings}

MaxArticles == 3
MaxRepeats == 7

\* every list of up to MaxArticles articles, and the lists of up to
\* MaxRepeats copies of one article
ArticleLists ==
    UNION {[1..n -> Articles] : n \in 0..MaxArticles}
    \cup {[i \in 1..n |-> a] : n \in 1..MaxRepeats, a \in Articles}

TrendsInit ==
    /\ now = StartClock
    /\ hashOrder = "first_seen"
    /\ request = NoCall /\ assessment = NoCall /\ prevAssessment = NoCall
    /\ cache = EmptyCache /\ searches = << >> /\ writeLog = << >>
    /\ queries = {}
    /\ evaluation = NoEvaluation
    /\ articles \in ArticleLists
    /\ trends = NoCall
    /\ risk_indicators = << >> /\ recommendations = NoCall
    /\ embedder = NoCall /\ context = NoCall

\* _identify_fraud_trends(articles)
IdentifyTrends ==
    /\ trends = NoCall
    /\ trends' = [status |-> "returned", list |-> identify_fraud_trends(articles)]
    /\ UNCHANGED <<now, hashOrder, scoreVars, searchVars, evaluation, articles,
                   risk_indicators, recommendations, embedVars>>

TrendsNext == IdentifyTrends

SpecTrends == TrendsInit /\ [][TrendsNext]_vars

\* ------------------------------------------------------------------------
\* Properties of _identify_fraud_trends
\* ------------------------------------------------------------------------
Identified == trends.status = "returned"

Categories == 1..Len(fraud_keywords)

\* the articles that contain a keyword of the category, whatever the case
MatchingDocuments(c) ==
    {i \in 1..Len(articles) :
        \E k \in 1..Len(fraud_keywords[c].keywords) :
            Contains(LowerText(fraud_keywords[c].keywords[k]),
                     article_content(articles[i]))}

\* the matching articles rated sev
Rated(c, sev) ==
    {i \in MatchingDocuments(c) :
        severity_indicator(article_content(articles[i])) = sev}

TrendsOf(c) ==
    {t \in 1..Len(trends.list) :
        trends.list[t].trend_type = fraud_keywords[c].trend_type}

SeverityByCount(c) ==
    IF Cardinality(Rated(c, "HIGH")) >= 2 THEN "HIGH"
    ELSE IF Cardinality(Rated(c, "MEDIUM")) >= 2 THEN "MEDIUM"
    ELSE "LOW"

\* the doubles nearest to 0.15 n for n below 6, and to 0.9 from 6 on
DecimalConfidence(n) ==
    CASE n = 1 -> F0_15
      [] n = 2 -> <<80530636, 429496728>>
      [] n = 3 -> F0_45
      [] n = 4 -> <<161061273, 322122544>>
      [] n = 5 -> <<201326592, 0>>
      [] OTHER -> F0_9

\* one trend for each category with a matching article and none for the
\* others, with the severity of the counts
TrendPerCategory ==
    \A c \in Categories :
        /\ Cardinality(TrendsOf(c)) = IF MatchingDocuments(c) = {} THEN 0 ELSE 1
        /\ \A t \in TrendsOf(c) : trends.list[t].severity = SeverityByCount(c)

\* C16 as stated: one trend for each category with a matching article, its
\* severity from the counts of HIGH and MEDIUM articles, and its confidence
\* equal to min(0.9, 0.15 n) for n matching articles: 0.45 for three.
C16_TrendConfidenceExact ==
    Identified =>
        /\ TrendPerCategory
        /\ \A c \in Categories : \A t \in TrendsOf(c) :
               trends.list[t].confidence_level =
                   DecimalConfidence(Cardinality(MatchingDocuments(c)))

\* C16 as amended: the confidence is min(0.9, n * 0.15) in double
\* precision, which is the decimal value or the double just below it:
\* never above it and at most 2^-53 below (16 units of 2^-57).
C16_TrendConfidenceRounded ==
    Identified =>
        /\ TrendPerCategory
        /\ \A c \in Categories : \A t \in TrendsOf(c) :
               LET exact == DecimalConfidence(Cardinality(MatchingDocuments(c)))
                   level == trends.list[t].confidence_level
               IN  /\ level[1] = exact[1]
                   /\ exact[2] - level[2] \in 0..16
                   /\ FLeq(level, F0_9)

\* three articles with "skimming" and "surge": one trend,
\* credit_card_skimming, HIGH, with confidence 0.44999999999999996
C16_ThreeSkimmingSurges ==
    /\ Identified
    /\ Len(articles) = 3
    /\ \A i \in 1..3 : /\ Contains("skimming", article_content(articles[i]))
                       /\ Contains("surge", article_content(articles[i]))
    /\ Len(trends.list) = 1
    /\ trends.list[1].trend_type = "credit_card_skimming"
    /\ trends.list[1].severity = "HIGH"
    /\ trends.list[1].confidence_level = <<120795955, 107374176>>
    /\ trends.list[1].confidence_level # F0_45

\* C18: the RiskEvaluation built in step 7 for a scored evaluation carries
\* the score, the tier and the confidence that calculate_comprehensive_risk
\* returned, whatever the Reasoner answered.
C18_EvaluationCarriesEngineNumbers ==
    Scored =>
        \A risk_analysis \in ReasonerResponses :
            LET e == risk_evaluation(evaluation.customerId, risk_analysis,
                                     evaluation.market_insights)
            IN  /\ e.overall_risk_score = evaluation.assessment.overall_risk_score
                /\ e.risk_level = evaluation.assessment.risk_level
                /\ e.confidence_score = evaluation.assessment.confidence_score

\* ------------------------------------------------------------------------
\* Properties of _apply_risk_adjustments
\* ------------------------------------------------------------------------
\* the weighted sum of the five components of a breakdown, in thousandths
WeightedBase(b) ==
    35 * b.credit_score_component + 25 * b.financial_component
    + 20 * b.behavioral_component + 10 * b.demographic_component
    + 10 * b.external_component

\* the sum of the amounts of the adjustments from the i-th on
RECURSIVE AmountsFrom(_, _)
AmountsFrom(adjustments, i) ==
    IF i > Len(adjustments) THEN 0
    ELSE adjustments[i].amount + AmountsFrom(adjustments, i + 1)

\* the amount under a name in a list of adjustments, 0 when it is not there
AmountOf(adjustments, name) ==
    LET Named(a) == a.name = name
    IN  AmountsFrom(SelectSeq(adjustments, Named), 1)

\* C21: in a returned assessment the base score is the sum of the five
\* components weighted 0.35, 0.25, 0.20, 0.10 and 0.10, the final score is
\* the base plus all adjustments clamped to [0, 100], and every adjustment
\* is a percentage of the unadjusted base: with c > 0 CRITICAL factors the
\* severity adjustment is 25% of the base times c and there is no
\* adjustment for the count of HIGH factors; with no CRITICAL factor and
\* h > 2 HIGH factors it is 12% of the base times (h - 2); otherwise there
\* is no severity adjustment.
C21_AdjustmentsArePercentagesOfBase ==
    (Called /\ Returned) =>
        LET b == assessment.score_breakdown
            base == WeightedBase(b)
            c == SeverityCount(assessment.risk_factors, "CRITICAL")
            h == SeverityCount(assessment.risk_factors, "HIGH")
            adjustments == b.adjustments
        IN  /\ b.base_score = base
            /\ assessment.overall_risk_score
                 = Clamp(0, ScoreCap, 100 * base + AmountsFrom(adjustments, 1))
            /\ \A i \in 1..Len(adjustments) :
                   adjustments[i].name \in {"first_time_customer", "high_limit_request",
                                            "critical_risk_factors", "multiple_high_risks"}
            /\ AmountOf(adjustments, "first_time_customer") \in {0, 10 * base}
            /\ AmountOf(adjustments, "high_limit_request") \in {0, 15 * base}
            /\ AmountOf(adjustments, "critical_risk_factors")
                 = (IF c > 0 THEN 25 * base * c ELSE 0)
            /\ AmountOf(adjustments, "multiple_high_risks")
                 = (IF c = 0 /\ h > 2 THEN 12 * base * (h - 2) ELSE 0)

\* an assessment with a CRITICAL factor and more than two HIGH factors,
\* adjusted for the CRITICAL factor and for the requested limit, whose score
\* stays below the cap
C21_CriticalAmongManyHigh ==
    /\ Called /\ Returned
    /\ SeverityCount(assessment.risk_factors, "CRITICAL") > 0
    /\ SeverityCount(assessment.risk_factors, "HIGH") > 2
    /\ Len(assessment.score_breakdown.adjustments) >= 2
    /\ assessment.score_breakdown.base_score > 0
    /\ assessment.overall_risk_score < ScoreCap

\* the credit score of the bureau report of a request, Absent when there is
\* no report or the report carries no score
BureauScoreOf(req) ==
    IF BureauTruthy(req.bd) THEN req.bd.credit_score ELSE Absent

\* C22: a returned assessment carries the first_time_customer adjustment
\* (10% of the base) exactly when the bureau credit score is below 600 or
\* no bureau score is available, whatever score the applicant declared.
C22_FirstTimeByBureauScore ==
    (Called /\ Returned) =>
        LET adjustments == assessment.score_breakdown.adjustments
            adjusted == \E i \in 1..Len(adjustments) :
                            /\ adjustments[i].name = "first_time_customer"
                            /\ adjustments[i].amount
                                 = 10 * assessment.score_breakdown.base_score
            bureau_score == BureauScoreOf(request)
        IN  adjusted <=> (bureau_score = Absent \/ bureau_score < 600)

\* the assessment has a factor of this name and severity
HasFactor(a, name, sev) ==
    \E i \in 1..Len(a.risk_factors) :
        /\ a.risk_factors[i].factor_name = name
        /\ a.risk_factors[i].severity = sev

\* C23: with an annual income of zero both ratios over the income count as
\* the worst case: the assessment carries the HIGH debt_to_income_ratio
\* factor (a ratio of 1.0) and the high_limit_request adjustment of 15% of
\* the base (a ratio above 0.5).
C23_ZeroIncomeIsWorstCase ==
    (Called /\ Returned /\ request.cd.annualIncome = 0) =>
        /\ HasFactor(assessment, "debt_to_income_ratio", "HIGH")
        /\ AmountOf(assessment.score_breakdown.adjustments, "high_limit_request")
             = 15 * assessment.score_breakdown.base_score

\* ------------------------------------------------------------------------
\* Properties of _generate_risk_recommendations
\* ------------------------------------------------------------------------
\* the non-empty recommendation strings of the factors from the i-th on
\* that are not in seen, each once, in the order of first appearance
RECURSIVE FirstSeenFrom(_, _, _)
FirstSeenFrom(factors, i, seen) ==
    IF i > Len(factors) THEN << >>
    ELSE LET r == factors[i].recommendation
         IN  IF r = "" \/ r \in seen
             THEN FirstSeenFrom(factors, i + 1, seen)
             ELSE << r >> \o FirstSeenFrom(factors, i + 1, seen \cup {r})

FirstSeen(factors) == FirstSeenFrom(factors, 1, {})

\* C24: the recommendations of a returned assessment are the boilerplate
\* strings of its tier followed by the first 5 of the recommendation
\* strings of its factors, duplicates removed, in the order in which each
\* string first appears in the factor list; there are at most 9 of them.
C24_RecommendationsInFirstSeenOrder ==
    (Called /\ Returned) =>
        /\ assessment.recommendations
             = TierRecommendations(assessment.risk_level)
               \o Prefix(FirstSeen(assessment.risk_factors), 5)
        /\ Len(assessment.recommendations) <= 9

\* ------------------------------------------------------------------------
\* MarketResearchPlugin._generate_recommendations
\* ------------------------------------------------------------------------
\* trend_type.replace('_', ' '), character by character
RECURSIVE SpacedFrom(_, _)
SpacedFrom(s, i) ==
    IF i > Len(s) THEN ""
    ELSE (IF SubSeq(s, i, i) = "_" THEN " " ELSE SubSeq(s, i, i))
         \o SpacedFrom(s, i + 1)

\* the three strings of one HIGH or CRITICAL trend
trend_recommendations(trend_type) ==
    LET name == SpacedFrom(trend_type, 1)
    IN  << "Implement enhanced monitoring for " \o name \o " patterns",
           "Review and update fraud detection rules for " \o name,
           "Consider additional verification steps for applications matching "
               \o name \o " risk profile" >>

\* the strings of the trends from the i-th on
RECURSIVE trend_based_from(_, _)
trend_based_from(list, i) ==
    IF i > Len(list) THEN << >>
    ELSE (IF list[i].severity \in {"HIGH", "CRITICAL"}
          THEN trend_recommendations(list[i].trend_type)
          ELSE << >>)
         \o trend_based_from(list, i + 1)

elevated_recommendation ==
    "Consider implementing temporary additional security measures due to elevated fraud environment"
breach_recommendation ==
    "Review customer data sources for potential compromise"
regulation_recommendation ==
    "Review compliance procedures for recent regulatory changes"

general_recommendations ==
    << "Conduct regular review of fraud detection models against current market trends",
       "Consider implementing real-time fraud scoring based on current threat landscape",
       "Maintain ongoing monitoring of fraud trend evolution" >>

\* any(word in indicator.lower() for indicator in risk_indicators)
any_indicator(word, indicators) ==
    \E i \in 1..Len(indicators) : Contains(word, LowerText(indicators[i]))

\* the list `recommendations` before duplicates are removed
all_recommendations(list, indicators) ==
    LET high_risk_count ==
            Cardinality({i \in 1..Len(list) : list[i].severity = "HIGH"})
    IN  trend_based_from(list, 1)
        \o (IF high_risk_count >= 2 THEN << elevated_recommendation >> ELSE << >>)
        \o (IF any_indicator("breach", indicators)
            THEN << breach_recommendation >> ELSE << >>)
        \o (IF any_indicator("regulation", indicators)
            THEN << regulation_recommendation >> ELSE << >>)
        \o general_recommendations

\* every string the generator can emit, in the order in which it emits them
RecommendationStrings ==
    all_recommendations(
        [c \in 1..Len(fraud_keywords) |->
            [trend_type |-> fraud_keywords[c].trend_type, severity |-> "HIGH"]],
        << "breach", "regulation" >>)

\* Iteration orders of a set of these strings: the order in which they are
\* emitted, the reverse of it, and the odd positions before the even ones
RecommendationOrders == {"first_seen", "last_seen", "odd_first"}

set_order(strings, order) ==
    LET n == Len(strings)
    IN  CASE order = "first_seen" -> strings
          [] order = "last_seen" -> [i \in 1..n |-> strings[n + 1 - i]]
          [] OTHER ->
               [i \in 1..n |->
                  IF i <= (n + 1) \div 2
                  THEN strings[2 * i - 1]
                  ELSE strings[2 * (i - (n + 1) \div 2)]]

\* list(set(recommendations))
list_of_set(list, order) ==
    LET In(x) == \E i \in 1..Len(list) : list[i] = x
    IN  SelectSeq(set_order(RecommendationStrings, order), In)

\* the generator without its final [:8]
generate_recommendations_uncapped(list, indicators, order) ==
    list_of_set(all_recommendations(list, indicators), order)

\* list(set(recommendations))[:8]
generate_recommendations(list, indicators, order) ==
    Prefix(list_of_set(all_recommendations(list, indicators), order), 8)

\* the trend lists _identify_fraud_trends can return, reduced to the fields
\* the generator reads: at most one trend per category, in category order
TrendSeverities == {"HIGH", "MEDIUM", "LOW"}

RECURSIVE TrendListFrom(_, _)
TrendListFrom(choice, c) ==
    IF c > Len(fraud_keywords) THEN << >>
    ELSE (IF choice[c] = "none" THEN << >>
          ELSE << [trend_type |-> fraud_keywords[c].trend_type,
                   severity |-> choice[c]] >>)
         \o TrendListFrom(choice, c + 1)

TrendLists ==
    {TrendListFrom(choice, 1) :
        choice \in [1..Len(fraud_keywords) -> TrendSeverities \cup {"none"}]}

\* indicators as _extract_risk_indicators writes them: a description, a
\* colon and the text that matched
IndicatorStrings ==
    << "Security breach reported: hack",
       "Regulatory change detected: Regulation",
       "Regulatory change detected: penalty",
       "Economic risk factor: inflation" >>

IndicatorLists ==
    {LET In(x) == x \in S IN SelectSeq(IndicatorStrings, In) :
        S \in SUBSET {IndicatorStrings[i] : i \in 1..Len(IndicatorStrings)}}

AdviceInit ==
    /\ now = StartClock
    /\ hashOrder \in RecommendationOrders
    /\ request = NoCall /\ assessment = NoCall /\ prevAssessment = NoCall
    /\ cache = EmptyCache /\ searches = << >> /\ writeLog = << >>
    /\ queries = {}
    /\ evaluation = NoEvaluation
    /\ articles = << >>
    /\ trends \in {[status |-> "returned", list |-> list] : list \in TrendLists}
    /\ risk_indicators \in IndicatorLists
    /\ recommendations = NoCall
    /\ embedder = NoCall /\ context = NoCall

\* _generate_recommendations(trends, risk_indicators)
GenerateRecommendations ==
    /\ recommendations = NoCall
    /\ recommendations' =
           [status |-> "returned",
            list |-> generate_recommendations(trends.list, risk_indicators, hashOrder)]
    /\ UNCHANGED <<now, hashOrder, scoreVars, searchVars, evaluation, articles,
                   trends, risk_indicators, embedVars>>

AdviceNext == GenerateRecommendations

SpecAdvice == AdviceInit /\ [][AdviceNext]_vars

\* ------------------------------------------------------------------------
\* Properties of _generate_recommendations
\* ------------------------------------------------------------------------
Advised == recommendations # NoCall

NoDuplicates(list) ==
    \A i, j \in 1..Len(list) : list[i] = list[j] => i = j

Elements(list) == {list[i] : i \in 1..Len(list)}

\* the number of trends of these severities
TrendCount(severities) ==
    Cardinality({i \in 1..Len(trends.list) : trends.list[i].severity \in severities})

\* an indicator mentions the word, whatever its case
Mentions(word) ==
    \E i \in 1..Len(risk_indicators) : Contains(word, LowerText(risk_indicators[i]))

\* the number of distinct strings the trends and the indicators call for:
\* 3 for each HIGH or CRITICAL trend, 1 for two or more HIGH trends, 1 for a
\* breach, 1 for a regulation, and the 3 general ones
Generated ==
    3 * TrendCount({"HIGH", "CRITICAL"})
    + (IF TrendCount({"HIGH"}) >= 2 THEN 1 ELSE 0)
    + (IF Mentions("breach") THEN 1 ELSE 0)
    + (IF Mentions("regulation") THEN 1 ELSE 0)
    + 3

\* C25 as stated: the returned list has no duplicates, at most 8 entries,
\* and always contains the 3 fixed general recommendations.
C25_GeneralAlwaysIncluded ==
    Advised =>
        /\ NoDuplicates(recommendations.list)
        /\ Len(recommendations.list) <= 8
        /\ Elements(general_recommendations) \subseteq Elements(recommendations.list)

\* C25, amended: the returned list has no duplicates and holds 8 of the
\* strings the trends and indicators call for, or all of them when they
\* are at most 8; in that case it contains the 3 general recommendations.
C25_GeneralIncludedWithinCap ==
    Advised =>
        /\ NoDuplicates(recommendations.list)
        /\ Len(recommendations.list) = (IF Generated <= 8 THEN Generated ELSE 8)
        /\ Elements(recommendations.list) \subseteq Elements(RecommendationStrings)
        /\ Generated <= 8 =>
               Elements(general_recommendations) \subseteq Elements(recommendations.list)

\* two HIGH trends with a breach and a regulation indicator: 12 strings are
\* called for, 8 are returned and a general recommendation is not among them
C25_GeneralCutByCap ==
    /\ Advised
    /\ TrendCount({"HIGH"}) = 2
    /\ Mentions("breach") /\ Mentions("regulation")
    /\ Generated = 12
    /\ Len(recommendations.list) = 8
    /\ ~(Elements(general_recommendations) \subseteq Elements(recommendations.list))

\* ------------------------------------------------------------------------
\* EmbeddingsService.get_embedding
\* ------------------------------------------------------------------------
\* the texts embedded and the vectors the embeddings provider answers with
Texts == {"credit policy", "limit rules"}
Vectors == {"v1", "v2"}

\* the most get_embedding calls made
MaxEmbeds == 3

\* EmbeddingsService.__init__: `{} if cache_embeddings else None`, the
\* statistics at zero; provider_calls counts the embeddings.create calls
new_service(cache_embeddings, ai_search_service) ==
    [status |-> "ready",
     ai_search_service |-> ai_search_service,
     cache_embeddings |-> cache_embeddings,
     cache |-> [kind |-> IF cache_embeddings THEN "dict" ELSE "none",
                entries |-> EmptyCache],
     stats |-> [total_requests |-> 0, cache_hits |-> 0, cache_misses |-> 0,
                errors |-> 0],
     provider_calls |-> 0,
     calls |-> << >>]

\* `if self._embedding_cache:` -- None is false and so is a dict with no key
cache_truthy(service) ==
    service.cache.kind = "dict" /\ DOMAIN service.cache.entries # {}

\* get_embedding up to its first await: a cached vector is returned at
\* once, otherwise the provider is called.  A call records the texts that
\* had been embedded with success when it started.
embedding_start(service, text) ==
    LET embedded == {k \in 1..Len(service.calls) :
                        /\ service.calls[k].pc = "returned"
                        /\ service.calls[k].text = text}
    IN  IF cache_truthy(service) /\ text \in DOMAIN service.cache.entries
        THEN [service EXCEPT
                !.stats.cache_hits = @ + 1,
                !.calls = Append(@, [text |-> text, pc |-> "returned",
                                     embedding |-> service.cache.entries[text],
                                     provider |-> FALSE, after |-> embedded])]
        ELSE [service EXCEPT
                !.provider_calls = @ + 1,
                !.calls = Append(@, [text |-> text, pc |-> "provider",
                                     embedding |-> "", provider |-> TRUE,
                                     after |-> embedded])]

\* get_embedding after the provider has answered
embedding_answer(service, i, vector) ==
    LET text == service.calls[i].text
        entries == IF cache_truthy(service)
                   THEN [k \in DOMAIN service.cache.entries \cup {text} |->
                            IF k = text THEN vector ELSE service.cache.entries[k]]
                   ELSE service.cache.entries
    IN  [service EXCEPT
            !.cache.entries = entries,
            !.stats.cache_misses = IF cache_truthy(service) THEN @ + 1 ELSE @,
            !.stats.total_requests = @ + 1,
            !.calls[i].pc = "returned",
            !.calls[i].embedding = vector]

\* get_embedding after the provider call has raised
embedding_error(service, i) ==
    [service EXCEPT !.stats.errors = @ + 1, !.calls[i].pc = "raised"]

EmbedInit ==
    /\ now = StartClock
    /\ hashOrder = "first_seen"
    /\ request = NoCall /\ assessment = NoCall /\ prevAssessment = NoCall
    /\ cache = EmptyCache /\ searches = << >> /\ writeLog = << >>
    /\ queries = {}
    /\ evaluation = NoEvaluation
    /\ articles = << >> /\ trends = NoCall
    /\ risk_indicators = << >> /\ recommendations = NoCall
    /\ \E cache_embeddings \in BOOLEAN :
           embedder = new_service(cache_embeddings, TRUE)
    /\ context = NoCall

\* await get_embedding(text)
EmbedStart ==
    /\ Len(embedder.calls) < MaxEmbeds
    /\ \E text \in Texts : embedder' = embedding_start(embedder, text)
    /\ UNCHANGED <<now, hashOrder, scoreVars, searchVars, evaluation, trendVars, context>>

\* the embeddings provider answers a call
EmbedAnswer ==
    /\ \E i \in 1..Len(embedder.calls), vector \in Vectors :
           /\ embedder.calls[i].pc = "provider"
           /\ embedder' = embedding_answer(embedder, i, vector)
    /\ UNCHANGED <<now, hashOrder, scoreVars, searchVars, evaluation, trendVars, context>>

\* the embeddings provider fails a call
EmbedError ==
    /\ \E i \in 1..Len(embedder.calls) :
           /\ embedder.calls[i].pc = "provider"
           /\ embedder' = embedding_error(embedder, i)
    /\ UNCHANGED <<now, hashOrder, scoreVars, searchVars, evaluation, trendVars, context>>

EmbedNext == EmbedStart \/ EmbedAnswer \/ EmbedError

SpecEmbed == EmbedInit /\ [][EmbedNext]_vars

\* ------------------------------------------------------------------------
\* Properties of get_embedding
\* ------------------------------------------------------------------------
\* C27: with cache_embeddings enabled, a get_embedding call made after a
\* call with the same text has succeeded returns the stored vector without
\* a call of the embeddings provider, and each such call adds one to
\* cache_hits; once a call has succeeded the cache is not empty.
C27_EmbeddingServedFromCache ==
    embedder.cache_embeddings =>
        LET calls == embedder.calls
            Later == {j \in 1..Len(calls) : calls[j].after # {}}
        IN  /\ \A j \in Later :
                   /\ ~calls[j].provider
                   /\ calls[j].pc = "returned"
                   /\ \E k \in calls[j].after : calls[j].embedding = calls[k].embedding
            /\ embedder.stats.cache_hits = Cardinality(Later)
            /\ (\E k \in 1..Len(calls) : calls[k].pc = "returned")
                   => DOMAIN embedder.cache.entries # {}

\* ------------------------------------------------------------------------
\* EmbeddingsService.get_context_for_query
\* ------------------------------------------------------------------------
\* A document of the search index: content is modelled by the number of
\* words content.split() yields, score is @search.score in hundredths.
Document(id, words, score) ==
    [id |-> id, words |-> words, score |-> score, truncated |-> FALSE]

\* the index in the order of the scores; a document of 3077 words is the
\* shortest one estimated above 4000 tokens
Index ==
    << Document("d1", 4000, 95), Document("d2", 3077, 90), Document("d3", 3076, 85),
       Document("d4", 7, 80), Document("d5", 3, 70), Document("d6", 8, 65),
       Document("d7", 0, 60) >>

\* what search_client.search can answer for top = top_k: up to top_k
\* documents of the index, best score first
SearchAnswers(top_k) ==
    {LET In(d) == d.id \in ids IN SelectSeq(Index, In) :
        ids \in {S \in SUBSET {Index[i].id : i \in 1..Len(Index)} :
                    Cardinality(S) <= top_k}}

\* the arguments of the call: the default budget of 4000 tokens, which the
\* agent always uses, and a small one
MaxResults == {1, 2}
MinSimilarities == {70, 50}
MaxContextLengths == {4000, 10}

\* AISearchService.vector_search: the results whose score is at least min_score
vector_search(answer, min_score) ==
    LET Above(d) == d.score >= min_score
    IN  SelectSeq(answer, Above)

\* len(content.split()) * 1.3, in tenths of a token
content_tokens(words) == 13 * words

\* _truncate_content returning the content whole whatever its length
truncate_content_whole(doc, max_tokens) == doc

\* _truncate_content: content of more than int(max_tokens * 0.75) words is
\* cut to that many words and "..." is appended to the last of them (with
\* no word kept, "..." is the one word left)
truncate_content(doc, max_tokens) ==
    LET max_words == (max_tokens * 3) \div 4
    IN  IF doc.words <= max_words THEN doc
        ELSE [doc EXCEPT !.words = IF max_words = 0 THEN 1 ELSE max_words,
                         !.truncated = TRUE]

\* the loop over search_results from the i-th on; total_tokens in tenths
RECURSIVE context_documents(_, _, _, _, _, _)
context_documents(results, i, context_docs, total_tokens, max_results, max_context_length) ==
    IF i > Len(results) THEN context_docs
    ELSE LET result == results[i]
             exceeds == total_tokens + content_tokens(result.words)
                            > 10 * max_context_length
         IN  IF exceeds /\ context_docs # << >> THEN context_docs
             ELSE LET doc == IF exceeds
                             THEN truncate_content(result, max_context_length)
                             ELSE result
                      docs == Append(context_docs, doc)
                  IN  IF Len(docs) >= max_results THEN docs
                      ELSE context_documents(results, i + 1, docs,
                                             total_tokens + content_tokens(doc.words),
                                             max_results, max_context_length)

ContextInit ==
    /\ now = StartClock
    /\ hashOrder = "first_seen"
    /\ request = NoCall /\ assessment = NoCall /\ prevAssessment = NoCall
    /\ cache = EmptyCache /\ searches = << >> /\ writeLog = << >>
    /\ queries = {}
    /\ evaluation = NoEvaluation
    /\ articles = << >> /\ trends = NoCall
    /\ risk_indicators = << >> /\ recommendations = NoCall
    /\ \E cache_embeddings, ai_search_service \in BOOLEAN :
           embedder = new_service(cache_embeddings, ai_search_service)
    /\ context = NoCall

\* get_context_for_query up to its first await: without a search service
\* it returns [], otherwise it awaits get_embedding(query)
ContextStart ==
    /\ context = NoCall
    /\ \E query \in Texts, max_results \in MaxResults,
          min_similarity \in MinSimilarities,
          max_context_length \in MaxContextLengths :
          LET call == [status |-> "called", query |-> query,
                       max_results |-> max_results,
                       min_similarity |-> min_similarity,
                       max_context_length |-> max_context_length,
                       search_results |-> << >>, context_docs |-> << >>]
          IN  IF ~embedder.ai_search_service
              THEN /\ context' = [call EXCEPT !.status = "returned"]
                   /\ UNCHANGED embedder
              ELSE /\ embedder' = embedding_start(embedder, query)
                   /\ context' = [call EXCEPT !.status =
                                     IF embedder'.calls[Len(embedder'.calls)].pc = "returned"
                                     THEN "searching" ELSE "embedding"]
    /\ UNCHANGED <<now, hashOrder, scoreVars, searchVars, evaluation, trendVars>>

\* the query is embedded and vector_search is awaited with top_k = 2 * max_results
ContextEmbedded ==
    /\ context.status = "embedding"
    /\ \E vector \in Vectors :
           embedder' = embedding_answer(embedder, Len(embedder.calls), vector)
    /\ context' = [context EXCEPT !.status = "searching"]
    /\ UNCHANGED <<now, hashOrder, scoreVars, searchVars, evaluation, trendVars>>

\* get_embedding raises and get_context_for_query raises it again
ContextEmbedError ==
    /\ context.status = "embedding"
    /\ embedder' = embedding_error(embedder, Len(embedder.calls))
    /\ context' = [context EXCEPT !.status = "raised"]
    /\ UNCHANGED <<now, hashOrder, scoreVars, searchVars, evaluation, trendVars>>

\* vector_search returns and the context documents are built and returned
ContextSearched ==
    /\ context.status = "searching"
    /\ \E answer \in SearchAnswers(2 * context.max_results) :
           LET results == vector_search(answer, context.min_similarity)
           IN  context' = [context EXCEPT
                   !.status = "returned",
                   !.search_results = results,
                   !.context_docs =
                       context_documents(results, 1, << >>, 0,
                                         context.max_results,
                                         context.max_context_length)]
    /\ UNCHANGED <<now, hashOrder, scoreVars, searchVars, evaluation, trendVars, embedder>>

\* vector_search raises and get_context_for_query raises it again
ContextSearchError ==
    /\ context.status = "searching"
    /\ context' = [context EXCEPT !.status = "raised"]
    /\ UNCHANGED <<now, hashOrder, scoreVars, searchVars, evaluation, trendVars, embedder>>

ContextNext ==
    \/ ContextStart \/ ContextEmbedded \/ ContextEmbedError
    \/ ContextSearched \/ ContextSearchError

SpecContext == ContextInit /\ [][ContextNext]_vars

\* ------------------------------------------------------------------------
\* Properties of get_context_for_query
\* ------------------------------------------------------------------------
\* the estimated tokens of the documents from the i-th on, in tenths
RECURSIVE TokensFrom(_, _)
TokensFrom(docs, i) ==
    IF i > Len(docs) THEN 0
    ELSE 13 * docs[i].words + TokensFrom(docs, i + 1)

\* the search result a returned document was made of
ResultOf(doc) ==
    {i \in 1..Len(context.search_results) : context.search_results[i].id = doc.id}

C28_NoCriticalWithoutBureau ==
    (Called /\ Returned) =>
        /\ \A i \in 1..Len(assessment.risk_factors) :
               assessment.risk_factors[i].severity = "CRITICAL" =>
                   /\ assessment.risk_factors[i].factor_name = "payment_delinquencies"
                   /\ MostlyDelinquent(request.bd)
        /\ ~BureauTruthy(request.bd) =>
               /\ ~HasCriticalFactor(assessment)
               /\ AmountOf(assessment.score_breakdown.adjustments,
                           "critical_risk_factors") = 0
               /\ \A i \in 1..Len(assessment.score_breakdown.adjustments) :
                      assessment.score_breakdown.adjustments[i].name
                          # "critical_risk_factors"
               /\ FLeq(assessment.confidence_score, F0_7)

\* an assessment made without bureau data for a customer with a low
\* declared score, with more than two HIGH factors and the confidence 0.7
C28_WeakApplicantWithoutBureau ==
    /\ Called /\ Returned
    /\ request.bd.kind = "none"
    /\ request.cd.hasProfile /\ request.cd.creditScore \in 300..549
    /\ SeverityCount(assessment.risk_factors, "HIGH") > 2
    /\ assessment.risk_level = "CRITICAL"
    /\ assessment.confidence_score = F0_7

\* ------------------------------------------------------------------------
\* Properties of a search whose providers fail
\* ------------------------------------------------------------------------
\* call c went to the providers and both searches failed
SearchesFailed(c) ==
    /\ searches[c].pc = "done"
    /\ searches[c].providerCalls > 0
    /\ searches[c].news_results = << >> /\ searches[c].web_results = << >>

\* C29: a search_fraud_trends call whose news search and web search both
\* fail writes no cache entry, so no later call with the same query and
\* time filter is served its result from the cache: such a call goes to
\* the providers again.
C29_FailedSearchNotCached ==
    /\ \A i \in 1..Len(writeLog) :
           \A c \in 1..Len(searches) :
               SearchesFailed(c) => writeLog[i].data # searches[c].result
    /\ \A b, c \in 1..Len(searches) :
           (b < c /\ SearchesFailed(b) /\ searches[c].pc = "done"
                  /\ KeyOf(c) = KeyOf(b) /\ searches[c].result = searches[b].result)
               => searches[c].providerCalls > 0

\* ------------------------------------------------------------------------
\* Properties of the Store call of evaluate_credit_risk
\* ------------------------------------------------------------------------
\* the evaluation has raised in a retrieval, the scoring or the analysis
FailedBeforeStore ==
    Started /\ evaluation.pc = "raised" /\ evaluation.error # "StoreError"

\* C30: an evaluate_credit_risk call invokes store_risk_evaluation at most
\* once; an evaluation that has failed in a retrieval, the scoring or the
\* Reasoner analysis has not invoked it; and the steps after the analysis
\* invoke it exactly once, with the evaluation that is returned when the
\* Store has stored it.
C30_StoreOnlyForFinishedEvaluation ==
    /\ Started => Len(evaluation.storeCalls) <= 1
    /\ FailedBeforeStore => evaluation.storeCalls = << >>
    /\ Scored =>
          \A risk_analysis \in ReasonerResponses,
             initialized, item_created, audit_logged \in BOOLEAN :
              LET after == store_and_return(evaluation, risk_analysis, initialized,
                                            item_created, audit_logged)
              IN  /\ after.storeCalls =
                        << risk_evaluation(evaluation.customerId, risk_analysis,
                                           evaluation.market_insights) >>
                  /\ after.pc \in {"returned", "raised"}
                  /\ after.pc = "raised" => after.error = "StoreError"

\* an evaluation that was scored and failed in the Reasoner analysis, the
\* Store not invoked
C30_FailedInAnalysisStoreUntouched ==
    /\ Scored /\ FailedBeforeStore
    /\ evaluation.analysis = "failed"
    /\ evaluation.market_insights # << >>
    /\ evaluation.storeCalls = << >>

====
